---- MODULE Spec2Model ----
(***************************************************************************)
(* FauxDB (pgElephant/fauxdb): the resilience fabric and the connection    *)
(* serving loop, modelled from the Rust sources.                           *)
(*                                                                         *)
(*   SpecBreaker : src/src/circuit_breaker.rs  (CircuitBreaker)            *)
(*   SpecLimiter : src/src/rate_limiter.rs     (RateLimiter, TokenBucket)  *)
(*   SpecServe   : src/src/production_server.rs, documentdb_server.rs,     *)
(*                 server.rs, wire_protocol.rs (per-connection loop)       *)
(*   SpecShutdown: src/src/shutdown.rs, production_main.rs and the loops   *)
(*                 the process runs (accept loop, connection tasks,        *)
(*                 rate limiter cleanup task)                              *)
(*   SpecAccept  : src/src/production_server.rs (accept loop),             *)
(*                 process_manager.rs, logger.rs (ConnectionTracker)       *)
(*   SpecCodec   : src/src/wire_protocol.rs under the reads of the         *)
(*                 serving loops                                           *)
(*                                                                         *)
(* Every specification constrains all variables; the variables of the      *)
(* other subsystems keep their initial value.                              *)
(***************************************************************************)
EXTENDS Integers, Sequences, FiniteSets, TLC

VARIABLES
    now,          \* Instant::now(), in ticks
    config,       \* CircuitBreakerConfig
    breaker,      \* CircuitBreakerState behind the RwLock
    call_pc,      \* position of each caller inside CircuitBreaker::call
    calls,        \* number of calls started so far (bounds the run)
    streak,       \* history: successful calls in a row since the sleep window of the
                  \* last opening elapsed
    last,         \* history: what the last breaker or limiter step did
    rl_config,    \* RateLimitConfig of the one rule
    entry,        \* RateLimitEntry of the one bucket key, or NoEntry
    rl_log,       \* history: results of check_rate_limit since the bucket was created
    variant,      \* which serving loop the process runs
    inbox,        \* per connection: chunks the client has sent, not yet read
    outbox,       \* per connection: frames written to the socket
    open,         \* per connection: the serving task still owns the stream
    hungup,       \* per connection: the client has closed its side
    dispatched,   \* history, per connection: requests that reached the dispatcher
    arrivals,     \* number of chunks sent so far, all connections
    sd_config,    \* ShutdownConfig
    is_shutting_down,  \* ShutdownManager.is_shutting_down
    shutdown_reason,   \* ShutdownManager.shutdown_reason
    shutdown_started,  \* ShutdownManager.shutdown_started
    channel,      \* every ShutdownReason sent on the broadcast channel, in order
    sigterm_task, \* the SIGTERM task of start_signal_handling: "waiting" or "done"
    main_pc,      \* position of ProductionServer::start (production_main.rs)
    guard_rx,     \* messages of channel that precede the guard's subscription or
                  \* that it has received
    guard_reason, \* ShutdownGuard.reason
    sd_elapsed,   \* milliseconds since shutdown_with_timeout began
    phases,       \* history: the phases graceful_shutdown has completed
    exit_code,    \* exit status of the process, or Running
    forced,       \* history: why force_shutdown ran
    signals,      \* number of signals delivered so far
    acceptor,     \* who admits connections: the accept loop or the ProcessManager
    max_connections,   \* server.max_connections
    accept_pc,    \* position of the accept loop of start_mongodb_server
    connection_count,  \* the accept loop's local connection_count
    backlog,      \* clients whose connection waits in the listen queue
    client,       \* per client: what became of its connection
    task_count,   \* per client: the connection_count moved into its task
    connections,  \* keys of ConnectionTracker.connections
    conn_id,      \* per client: its key in the tracker
    reads,        \* per client: turns of the serving loop so far
    reaper_runs,  \* turns of the rate limiter's cleanup task so far, up to MaxReaperRuns
    next_tick,    \* when the interval of the cleanup task completes its next tick
    stream,       \* the frames the client sends, as it sends them
    arrived,      \* bytes of stream written by the client so far
    rd,           \* bytes of stream the server has read so far
    writes,       \* number of writes of the client so far
    yielded,      \* history: what parse_message returned for each read
    codec_open,   \* the serving task still owns the stream
    engine,       \* which implementation serves the storage commands
    table,        \* rows of the collection in the backend
    served,       \* history: the storage commands served so far
    answered,     \* history: the command documents answered so far
    pool_config,  \* ProductionPoolConfig
    acquire,      \* per task: where it is in get_connection
    active_connections,  \* PoolStats::active_connections
    connection_errors,   \* PoolStats::connection_errors
    subscribed,   \* the receivers that ShutdownManager::subscribe has handed out
    rx,           \* per receiver: how many reasons of channel it is past
    received,     \* per receiver: the reasons its recv() has returned
    initiated,    \* history: the calls of initiate_shutdown so far
    bson_data,    \* the bytes handed to parse_bson_document
    bson_parsed,  \* what parse_bson_document returned for them, or NotParsed
    input_docs,   \* the documents of the collection, in the order of a scan
    stages,       \* the stages of the aggregation pipeline
    pushed,       \* what to_sql returned and what its query returns, or NotRun
    processed,    \* what process_pipeline_with_input returned, or NotRun
    transaction_semaphore,  \* permits of TransactionManager.transaction_semaphore
    active_transactions,    \* keys of TransactionManager.active_transactions
    txn_pc,       \* per session: where it is in start_transaction
    next_txn,     \* number of transaction ids generated so far
    txn_log       \* history: what the last call on the TransactionManager returned

breakerVars == <<config, breaker, call_pc, calls, streak>>
limiterVars == <<rl_config, entry, rl_log>>
serveVars   == <<variant, inbox, outbox, open, hungup, dispatched, arrivals>>
shutdownVars == <<sd_config, is_shutting_down, shutdown_reason, shutdown_started,
                  channel, sigterm_task, main_pc, guard_rx, guard_reason, sd_elapsed,
                  phases, exit_code, forced, signals>>
acceptVars  == <<acceptor, max_connections, accept_pc, connection_count, backlog,
                 client, task_count, connections, conn_id, reads, reaper_runs, next_tick>>
lifeVars    == <<shutdownVars, acceptVars>>
codecVars   == <<stream, arrived, rd, writes, yielded, codec_open>>
storeVars   == <<engine, table, served>>
registryVars == <<answered>>
poolVars    == <<pool_config, acquire, active_connections, connection_errors>>
subscriberVars == <<subscribed, rx, received, initiated>>
bsonVars    == <<bson_data, bson_parsed>>
pipelineVars == <<input_docs, stages, pushed, processed>>
txnVars     == <<transaction_semaphore, active_transactions, txn_pc, next_txn, txn_log>>
queryVars   == <<bsonVars, pipelineVars, txnVars>>
dataVars    == <<storeVars, registryVars, poolVars, subscriberVars, queryVars>>
vars == <<now, last, breakerVars, limiterVars, serveVars, lifeVars, codecVars, dataVars>>

(***************************************************************************)
(* Bounds                                                                  *)
(***************************************************************************)
MaxTime == 4
MaxThreshold == 2
MaxSleepWindow == 2
MaxCalls == 5
NumCallers == 2

Callers == 1..NumCallers

Max(a, b) == IF a >= b THEN a ELSE b
Min(a, b) == IF a <= b THEN a ELSE b

NoInstant == -1     \* Option<Instant>::None
NoStep == [op |-> "none"]

(***************************************************************************)
(* Circuit breaker: src/src/circuit_breaker.rs                             *)
(***************************************************************************)
CircuitState == {"Closed", "Open", "HalfOpen"}

\* CircuitBreakerState::new
NewBreakerState ==
    [state |-> "Closed", failure_count |-> 0, success_count |-> 0,
     request_count |-> 0, next_attempt_time |-> NoInstant]

\* reset that leaves request_count as it was
reset_keeps_requests(s) ==
    [s EXCEPT !.failure_count = 0, !.success_count = 0,
              !.next_attempt_time = NoInstant, !.state = "Closed"]

\* CircuitBreakerState::reset
reset(s) ==
    [s EXCEPT !.failure_count = 0, !.success_count = 0, !.request_count = 0,
              !.next_attempt_time = NoInstant, !.state = "Closed"]

\* CircuitBreaker::should_allow_request
should_allow_request(s, t) ==
    CASE s.state = "Closed"   -> TRUE
      [] s.state = "Open"     -> IF s.next_attempt_time # NoInstant
                                 THEN t >= s.next_attempt_time
                                 ELSE TRUE
      [] s.state = "HalfOpen" -> TRUE

\* CircuitBreaker::on_success_simple
on_success_simple(s) ==
    LET s1 == [s EXCEPT !.success_count = @ + 1]
    IN  IF s1.state = "HalfOpen" THEN [s1 EXCEPT !.failure_count = 0] ELSE s1

\* CircuitBreaker::on_failure_simple
on_failure_simple(s) ==
    LET s1 == [s EXCEPT !.failure_count = @ + 1]
    IN  IF s1.state = "HalfOpen" THEN [s1 EXCEPT !.success_count = 0] ELSE s1

\* should_open_circuit with || in place of &&
should_open_circuit_either(s, cfg) ==
    \/ s.request_count >= cfg.volume_threshold
    \/ s.failure_count >= cfg.failure_threshold

\* CircuitBreaker::should_open_circuit
should_open_circuit(s, cfg) ==
    /\ s.request_count >= cfg.volume_threshold
    /\ s.failure_count >= cfg.failure_threshold

\* CircuitBreaker::should_close_circuit
should_close_circuit(s, cfg) == s.success_count >= cfg.success_threshold

\* CircuitBreaker::open_circuit_simple
open_circuit_simple(s, cfg, t) ==
    [s EXCEPT !.state = "Open", !.next_attempt_time = t + cfg.sleep_window]

\* CircuitBreaker::close_circuit_simple
close_circuit_simple(s) == reset(s)

\* a HalfOpen arm that reopens only past the thresholds, as the Closed arm does
half_open_failure_thresholded(s, cfg, t) ==
    LET f == on_failure_simple(s)
    IN  IF should_open_circuit(f, cfg) THEN open_circuit_simple(f, cfg, t) ELSE f

\* the HalfOpen arm of update_state, on a failed call
half_open_failure(s, cfg, t) == open_circuit_simple(on_failure_simple(s), cfg, t)

\* the Closed arm of update_state, on a successful call
closed_success(s) == on_success_simple(s)

\* the Open arm of update_state
open_update(s, t) ==
    IF t >= (IF s.next_attempt_time # NoInstant THEN s.next_attempt_time ELSE t)
    THEN [s EXCEPT !.state = "HalfOpen", !.success_count = 0, !.failure_count = 0]
    ELSE s

\* CircuitBreaker::update_state
update_state(s0, cfg, success, t) ==
    LET s == [s0 EXCEPT !.request_count = @ + 1]
    IN  CASE s.state = "Closed" ->
                IF success
                THEN closed_success(s)
                ELSE LET f == on_failure_simple(s)
                     IN  IF should_open_circuit(f, cfg)
                         THEN open_circuit_simple(f, cfg, t)
                         ELSE f
          [] s.state = "Open" -> open_update(s, t)
          [] s.state = "HalfOpen" ->
                IF success
                THEN LET g == on_success_simple(s)
                     IN  IF should_close_circuit(g, cfg)
                         THEN close_circuit_simple(g)
                         ELSE g
                ELSE half_open_failure(s, cfg, t)

\* CircuitBreaker::get_state
get_state == breaker.state

\* the breaker has opened, has not closed since, and sleep_window has elapsed
SleepWindowElapsed ==
    /\ breaker.next_attempt_time # NoInstant
    /\ now >= breaker.next_attempt_time

\* CircuitBreaker::call, first block: the admission check under the read lock.
\* A rejected call returns the circuit-breaker error without running the
\* operation; an admitted one goes on to execute_with_timeout: "executing"
\* when the check saw the breaker Closed, "probing" when it saw it Open or
\* HalfOpen.
CallCheck(p) ==
    /\ call_pc[p] = "idle"
    /\ calls < MaxCalls
    /\ calls' = calls + 1
    /\ LET allowed == should_allow_request(breaker, now)
       IN  /\ call_pc' = [call_pc EXCEPT
                              ![p] = IF ~allowed THEN "idle"
                                     ELSE IF breaker.state = "Closed" THEN "executing"
                                     ELSE "probing"]
           /\ last' = [op |-> "check", caller |-> p, allowed |-> allowed,
                       seen |-> breaker.state]
    /\ UNCHANGED <<now, config, breaker, streak, limiterVars, serveVars, lifeVars, codecVars, dataVars>>

\* CircuitBreaker::call, second block: the operation has run (its result is
\* success or an error, a timeout included) and update_state runs under the
\* write lock.
CallComplete(p) ==
    /\ call_pc[p] \in {"executing", "probing"}
    /\ \E success \in BOOLEAN :
          /\ breaker' = update_state(breaker, config, success, now)
          /\ streak' = IF ~success \/ breaker'.state = "Open" THEN 0
                       ELSE IF SleepWindowElapsed THEN streak + 1
                       ELSE streak
          /\ last' = [op |-> "update", caller |-> p, success |-> success,
                      seen |-> breaker.state]
    /\ call_pc' = [call_pc EXCEPT ![p] = "idle"]
    /\ UNCHANGED <<now, config, calls, limiterVars, serveVars, lifeVars, codecVars, dataVars>>

\* CircuitBreaker::reset (&mut self: no call is in flight)
BreakerReset ==
    /\ \A p \in Callers : call_pc[p] = "idle"
    /\ breaker' = reset(breaker)
    /\ streak' = 0
    /\ last' = [op |-> "reset", seen |-> breaker.state]
    /\ UNCHANGED <<now, config, call_pc, calls, limiterVars, serveVars, lifeVars, codecVars, dataVars>>

\* the clock advances
Tick ==
    /\ now < MaxTime
    /\ now' = now + 1
    /\ last' = [op |-> "tick"]
    /\ UNCHANGED <<breakerVars, limiterVars, serveVars, lifeVars, codecVars, dataVars>>

Configs ==
    [failure_threshold : 1..MaxThreshold, success_threshold : 1..MaxThreshold,
     volume_threshold : 1..MaxThreshold, sleep_window : 1..MaxSleepWindow]

InitBreakerVars ==
    /\ breaker = NewBreakerState
    /\ call_pc = [p \in Callers |-> "idle"]
    /\ calls = 0
    /\ streak = 0

(***************************************************************************)
(* Rate limiter: src/src/rate_limiter.rs                                   *)
(***************************************************************************)
TicksPerSecond == 2
MaxRps == 2
MaxBurst == 2
MaxChecks == 4
WindowSeconds == 1

NanosPerSec == 1000000000

NoEntry == [present |-> FALSE]
RuleNames == {"global", "nosuch"}

CeilDiv(a, b) == (a + b - 1) \div b

\* Duration::from_secs_f64(secs) for secs = num/den, in nanoseconds
from_secs_ratio(num, den) == (num * NanosPerSec) \div den

\* Duration::as_secs
as_secs(d) == d \div NanosPerSec

\* TokenBucket::new
NewTokenBucket(capacity, refill_rate, t) ==
    [capacity |-> capacity, tokens |-> capacity, last_refill |-> t,
     refill_rate |-> refill_rate]

\* a refill that is not capped at the capacity
refill_uncapped(b, t) ==
    LET elapsed == t - b.last_refill
        tokens_to_add == (elapsed * b.refill_rate) \div TicksPerSecond
    IN  IF tokens_to_add > 0
        THEN [b EXCEPT !.tokens = b.tokens + tokens_to_add, !.last_refill = t]
        ELSE b

\* TokenBucket::refill
refill(b, t) ==
    LET elapsed == t - b.last_refill
        tokens_to_add == (elapsed * b.refill_rate) \div TicksPerSecond
    IN  IF tokens_to_add > 0
        THEN [b EXCEPT !.tokens = Min(b.tokens + tokens_to_add, b.capacity),
                       !.last_refill = t]
        ELSE b

\* TokenBucket::try_consume: the bucket afterwards and the answer
try_consume(b, tokens, t) ==
    LET r == refill(b, t)
    IN  IF r.tokens >= tokens
        THEN [bucket |-> [r EXCEPT !.tokens = @ - tokens], ok |-> TRUE]
        ELSE [bucket |-> r, ok |-> FALSE]

\* time_until_next_token with the rate in place of its inverse
time_until_next_token_rate(b) ==
    IF b.tokens > 0 THEN 0 ELSE from_secs_ratio(b.refill_rate, 1)

\* TokenBucket::time_until_next_token, in nanoseconds
time_until_next_token(b) ==
    IF b.tokens > 0 THEN 0 ELSE from_secs_ratio(1, b.refill_rate)

\* RateLimitEntry::new
NewRateLimitEntry(cfg, t) ==
    [present |-> TRUE,
     bucket |-> NewTokenBucket(cfg.burst_size, cfg.requests_per_second, t),
     last_request |-> t, request_count |-> 0, window_start |-> t]

\* RateLimitEntry::reset_window_if_needed
reset_window_if_needed(e, window_size, t) ==
    IF t - e.window_start >= window_size * TicksPerSecond
    THEN [e EXCEPT !.window_start = t, !.request_count = 0]
    ELSE e

\* the RateLimited answer of check_rate_limit
RateLimited(b, cfg) ==
    [kind |-> "RateLimited",
     retry_after_seconds |-> Max(as_secs(time_until_next_token(b)), 1),
     limit |-> cfg.requests_per_second,
     window_seconds |-> cfg.window_size_seconds]

Allowed == [kind |-> "Allowed"]

\* RateLimiter::check_rate_limit
CheckRateLimit ==
    /\ Len(rl_log) < MaxChecks
    /\ \E rule_name \in RuleNames :
          IF rule_name # "global"
          THEN /\ last' = [op |-> "check_rate_limit", result |-> [kind |-> "ConfigError"]]
               /\ UNCHANGED <<entry, rl_log>>
          ELSE IF ~rl_config.enabled
          THEN /\ last' = [op |-> "check_rate_limit", result |-> Allowed]
               /\ UNCHANGED <<entry, rl_log>>
          ELSE LET e0 == IF entry.present THEN entry ELSE NewRateLimitEntry(rl_config, now)
                   log0 == IF entry.present THEN rl_log ELSE <<>>
                   e1 == reset_window_if_needed(e0, rl_config.window_size_seconds, now)
                   c  == try_consume(e1.bucket, 1, now)
                   result == IF c.ok THEN Allowed ELSE RateLimited(c.bucket, rl_config)
               IN  /\ entry' = IF c.ok
                               THEN [e1 EXCEPT !.bucket = c.bucket, !.last_request = now,
                                               !.request_count = @ + 1]
                               ELSE [e1 EXCEPT !.bucket = c.bucket]
                   /\ rl_log' = Append(log0, [at |-> now, result |-> result])
                   /\ last' = [op |-> "check_rate_limit", result |-> result]
    /\ UNCHANGED <<now, rl_config, breakerVars, serveVars, lifeVars, codecVars, dataVars>>

RateLimitConfigs ==
    [requests_per_second : 1..MaxRps, burst_size : 0..MaxBurst,
     window_size_seconds : {WindowSeconds}, enabled : BOOLEAN]

InitLimiterVars ==
    /\ entry = NoEntry
    /\ rl_log = <<>>


(***************************************************************************)
(* Connection serving loop: src/src/production_server.rs,                  *)
(* src/src/documentdb_server.rs, src/src/server.rs, src/src/wire_protocol.rs *)
(***************************************************************************)
NumConns == 2
MaxArrivals == 2
MaxRequestId == 1

Conns == 1..NumConns
RequestIds == 0..MaxRequestId
Variants == {"production", "documentdb", "legacy"}

OP_REPLY == 1
OP_UPDATE == 2001
OP_QUERY == 2004
OP_MSG == 2013

\* What one stream.read() hands to the loop.  seq is the arrival number of
\* the chunk; requestID, responseTo and opCode are its header fields.  The
\* rest of its content is drawn when the server reads it:
\*   "short"   fewer than 16 bytes
\*   "garbage" a header followed by a body that does not parse
\*   "nocmd"   a document without any command key
\*   "cmd"     a document naming a command
Chunks(n) ==
    [seq : {n}, requestID : RequestIds, responseTo : {0},
     opCode : {OP_MSG, OP_QUERY, OP_UPDATE}]
Bodies == {"short", "garbage", "nocmd", "cmd"}
Cmds == {"ping", "hello", "nosuch"}
NoRequest == [seq |-> 0]

\* a read that returns the newest chunk
next_chunk_newest(q) == q[Len(q)]

\* the chunk the next stream.read() returns
next_chunk(q) == Head(q)

\* a write that is skipped for error documents
write_all_errors_dropped(out, frame) ==
    IF frame.ok = 0 THEN out ELSE Append(out, frame)

\* stream.write_all: the frame goes out after everything written before
write_all(out, frame) == Append(out, frame)

\* A response document is its ok, what its errmsg reports ("" when it
\* has no errmsg) and the set holding its code (empty when it has no code).

\* the { ok: 1.0 } document of a handler and of the default ping response
ping_response == [ok |-> 1, errmsg |-> "", code |-> {}]

\* MongoDBCommandRegistry::build_error_response: ok and errmsg
registry_build_error_response(message) ==
    [ok |-> 0, errmsg |-> message, code |-> {}]

\* ProductionFauxDBServer::build_error_response: ok, errmsg, code 1, codeName
build_error_response(message) ==
    [ok |-> 0, errmsg |-> message, code |-> {1}]

\* WireProtocolHandler::build_reply_message.  kinds are the kind bytes of
\* the sections of the frame (an OP_REPLY has none).
build_reply_message(request_id, document, req) ==
    [requestID |-> request_id, responseTo |-> 0, opCode |-> OP_REPLY,
     flags |-> 0, kinds |-> <<>>, ok |-> document.ok, errmsg |-> document.errmsg,
     code |-> document.code, request |-> req]

\* WireProtocolHandler::build_msg_response
build_msg_response(request_id, document, req) ==
    [requestID |-> request_id, responseTo |-> 0, opCode |-> OP_MSG,
     flags |-> 0, kinds |-> <<0>>, ok |-> document.ok, errmsg |-> document.errmsg,
     code |-> document.code, request |-> req]

\* handle_connection: the response is framed after the kind of the request
production_response(ch, document) ==
    IF ch.opCode = OP_QUERY
    THEN build_reply_message(ch.requestID, document, ch)
    ELSE build_msg_response(ch.requestID, document, ch)

\* WireProtocolHandler::parse_message, as Ok (TRUE) or Err (FALSE)
parse_message(ch, body) ==
    /\ body # "short"                       \* MessageHeader::parse
    /\ ch.opCode \in {OP_QUERY, OP_MSG}     \* "Unsupported opcode"
    /\ body # "garbage"                     \* OpQueryMessage / OpMsgMessage::parse

\* MongoDBCommandRegistry::handle_command, its Ok document: an unknown
\* command is answered with Ok(error document)
handle_command(cmd) ==
    IF cmd = "nosuch" THEN registry_build_error_response("Unknown command")
    ELSE ping_response

\* handle_connection: the answer of the registry, or the error document for
\* the Err of a handler, framed after the kind of the request
production_dispatch(ch, cmd, outcome) ==
    IF cmd # "nosuch" /\ outcome = "err"
    THEN production_response(ch, build_error_response("error"))
    ELSE production_response(ch, handle_command(cmd))

\* ProductionFauxDBServer::handle_connection, one turn of the loop with a
\* chunk to read
HandleConnection(c) ==
    /\ variant = "production"
    /\ open[c]
    /\ inbox[c] # <<>>
    /\ LET ch == next_chunk(inbox[c]) IN
       \E body \in Bodies, cmd \in Cmds, outcome \in {"ok", "err"}, wr \in {"ok", "fail"} :
          LET parsed == parse_message(ch, body)
              reached == parsed /\ body = "cmd"
              frame == IF ~parsed THEN build_reply_message(1, build_error_response("Parse error"),
                                                           NoRequest)
                       ELSE IF body = "nocmd" THEN production_response(ch, ping_response)
                       ELSE production_dispatch(ch, cmd, outcome)
          IN  /\ inbox' = [inbox EXCEPT ![c] = SelectSeq(@, LAMBDA x : x # ch)]
              /\ dispatched' = IF reached
                               THEN [dispatched EXCEPT ![c] = Append(@, ch)]
                               ELSE dispatched
              /\ IF wr = "ok"
                 THEN /\ outbox' = [outbox EXCEPT ![c] = write_all(@, frame)]
                      /\ open' = open
                 ELSE /\ outbox' = outbox
                      /\ open' = [open EXCEPT ![c] = FALSE]
    /\ UNCHANGED <<now, last, variant, hungup, arrivals, breakerVars, limiterVars, lifeVars, codecVars, dataVars>>

\* DocumentDBServer::create_response
create_response(request_id, response_to, doc, req) ==
    [requestID |-> request_id, responseTo |-> response_to, opCode |-> OP_MSG,
     flags |-> 0, kinds |-> <<0>>, ok |-> doc.ok, errmsg |-> doc.errmsg,
     code |-> doc.code, request |-> req]

\* DocumentDBServer::create_op_reply_response
create_op_reply_response(request_id, response_to, doc, req) ==
    [requestID |-> request_id, responseTo |-> response_to, opCode |-> OP_REPLY,
     flags |-> 0, kinds |-> <<>>, ok |-> doc.ok, errmsg |-> doc.errmsg,
     code |-> doc.code, request |-> req]

\* DocumentDBServer::create_error_response: ok, errmsg and code 1
create_error_response(request_id, response_to, req) ==
    create_response(request_id, response_to,
                    [ok |-> 0, errmsg |-> "error", code |-> {1}], req)

\* DocumentDBServer::handle_hello_command
handle_hello_command(ch) ==
    IF ch.opCode = OP_QUERY
    THEN create_op_reply_response(ch.requestID, ch.responseTo, ping_response, ch)
    ELSE create_response(ch.requestID, ch.responseTo, ping_response, ch)

\* DocumentDBServer::handle_ping_command, handle_generic_command
handle_ping_command(ch) ==
    create_response(ch.requestID, ch.responseTo, ping_response, ch)

\* DocumentDBServer::process_message with process_op_msg / process_op_query:
\* the frame of an Ok answer
documentdb_answer(ch, cmd) ==
    IF ch.opCode = OP_MSG
    THEN IF cmd = "hello" THEN handle_hello_command(ch) ELSE handle_ping_command(ch)
    ELSE IF cmd = "ping" THEN handle_ping_command(ch) ELSE handle_hello_command(ch)

\* DocumentDBServer::process_message as Ok (TRUE) or Err (FALSE): the pool or
\* the backend may fail (outcome), the body may not parse or be empty
documentdb_ok(ch, body, outcome) ==
    /\ outcome = "ok"
    /\ body = "cmd"

\* the frame handle_client writes for a message it has parsed
documentdb_frame(ch, body, cmd, outcome) ==
    IF documentdb_ok(ch, body, outcome)
    THEN documentdb_answer(ch, cmd)
    ELSE create_error_response(ch.requestID, ch.responseTo, ch)

\* DocumentDBServer::handle_client, one turn of the loop with a chunk to read
HandleClientDocumentDB(c) ==
    /\ variant = "documentdb"
    /\ open[c]
    /\ inbox[c] # <<>>
    /\ LET ch == next_chunk(inbox[c]) IN
       \E body \in Bodies, cmd \in Cmds, outcome \in {"ok", "err"}, wr \in {"ok", "fail"} :
          LET parsed == body # "short"              \* DocumentDBServer::parse_message
              frame == documentdb_frame(ch, body, cmd, outcome)
              sent == parsed /\ wr = "ok"
          IN  /\ inbox' = [inbox EXCEPT ![c] = SelectSeq(@, LAMBDA x : x # ch)]
              /\ dispatched' = IF parsed
                               THEN [dispatched EXCEPT ![c] = Append(@, ch)]
                               ELSE dispatched
              /\ outbox' = IF sent THEN [outbox EXCEPT ![c] = write_all(@, frame)]
                           ELSE outbox
              /\ open' = [open EXCEPT ![c] = sent]
    /\ UNCHANGED <<now, last, variant, hungup, arrivals, breakerVars, limiterVars, lifeVars, codecVars, dataVars>>

\* the header command_processor.rs writes into a response buffer
legacy_response(ch, ok, errmsg) ==
    [requestID |-> ch.requestID, responseTo |-> ch.responseTo, opCode |-> OP_QUERY,
     flags |-> 0, kinds |-> <<>>, ok |-> ok, errmsg |-> errmsg,
     code |-> {}, request |-> ch]

\* what the error of CommandProcessor::process_message reports, which
\* handle_client passes on as format!("{}", e)
legacy_errmsg(ch, body, cmd) ==
    IF ch.opCode = OP_QUERY /\ body = "cmd" /\ cmd = "nosuch"
    THEN "Unknown command" ELSE "error"

\* CommandProcessor::process_message as Ok (TRUE) or Err (FALSE)
legacy_ok(ch, body, cmd, outcome) ==
    CASE ch.opCode = OP_QUERY  -> /\ body \in {"cmd", "nocmd"}   \* process_op_msg
                                  /\ (body = "cmd" => cmd # "nosuch" /\ outcome = "ok")
      [] ch.opCode = OP_UPDATE -> TRUE                           \* process_op_query
      [] OTHER                 -> FALSE                          \* unsupported

\* server.rs handle_client, one turn of the loop with a chunk to read
HandleClientLegacy(c) ==
    /\ variant = "legacy"
    /\ open[c]
    /\ inbox[c] # <<>>
    /\ LET ch == next_chunk(inbox[c]) IN
       \E body \in Bodies, cmd \in Cmds, outcome \in {"ok", "err"}, wr \in {"ok", "fail"},
          parse \in {"ok", "err"} :
          LET ok == legacy_ok(ch, body, cmd, outcome)
              reached == body # "short" /\ parse = "ok"
              frame == IF ok /\ (ch.opCode = OP_UPDATE \/ body = "cmd")
                       THEN legacy_response(ch, 1, "")
                       ELSE legacy_response(ch, 0, legacy_errmsg(ch, body, cmd))
              sent == reached /\ wr = "ok"
          IN  /\ inbox' = [inbox EXCEPT ![c] = SelectSeq(@, LAMBDA x : x # ch)]
              /\ dispatched' = IF reached
                               THEN [dispatched EXCEPT ![c] = Append(@, ch)]
                               ELSE dispatched
              /\ outbox' = IF sent THEN [outbox EXCEPT ![c] = write_all(@, frame)]
                           ELSE outbox
              /\ open' = [open EXCEPT ![c] =
                             IF body = "short" THEN TRUE ELSE sent /\ ok]
    /\ UNCHANGED <<now, last, variant, hungup, arrivals, breakerVars, limiterVars, lifeVars, codecVars, dataVars>>

\* stream.read() returns Ok(0) or Err: the loop breaks and the stream is dropped
ReadEof(c) ==
    /\ open[c]
    /\ inbox[c] = <<>>
    /\ hungup[c]
    /\ open' = [open EXCEPT ![c] = FALSE]
    /\ UNCHANGED <<now, last, variant, inbox, outbox, hungup, dispatched, arrivals,
                   breakerVars, limiterVars, lifeVars, codecVars, dataVars>>

\* the client writes one chunk to its socket
ClientSend(c) ==
    /\ open[c]
    /\ ~hungup[c]
    /\ arrivals < MaxArrivals
    /\ \E ch \in Chunks(arrivals + 1) :
          inbox' = [inbox EXCEPT ![c] = Append(@, ch)]
    /\ arrivals' = arrivals + 1
    /\ UNCHANGED <<now, last, variant, outbox, open, hungup, dispatched,
                   breakerVars, limiterVars, lifeVars, codecVars, dataVars>>

\* the client closes its side of the connection
ClientHangup(c) ==
    /\ ~hungup[c]
    /\ hungup' = [hungup EXCEPT ![c] = TRUE]
    /\ UNCHANGED <<now, last, variant, inbox, outbox, open, dispatched, arrivals,
                   breakerVars, limiterVars, lifeVars, codecVars, dataVars>>

InitServeVars ==
    /\ inbox = [c \in Conns |-> <<>>]
    /\ outbox = [c \in Conns |-> <<>>]
    /\ open = [c \in Conns |-> TRUE]
    /\ hungup = [c \in Conns |-> FALSE]
    /\ dispatched = [c \in Conns |-> <<>>]
    /\ arrivals = 0

(***************************************************************************)
(* Shutdown: src/src/shutdown.rs, src/src/production_main.rs               *)
(***************************************************************************)
MaxSignals == 2
MaxInitiates == 2
NumReceivers == 1

Receivers == 1..NumReceivers

Running == -1            \* the process has not exited
SIGINT == 2
SIGTERM == 15
StopNewMillis == 100     \* the sleep of stop_new_connections
DrainMillis == 500       \* the sleep of drain_connections

\* ShutdownReason
Signal(n) == [kind |-> "Signal", signo |-> n]
Request == [kind |-> "Request"]
Error == [kind |-> "Error"]
NoReason == [kind |-> "None"]

\* ShutdownConfig: the one production_main.rs builds (30 s, 60 s, 10 s) and
\* shorter ones
ShutdownConfigs ==
    [graceful_timeout : {300, 30000}, force_timeout : {60000},
     drain_timeout : {10000}, signal_handling : {TRUE}]
        \cup [graceful_timeout : {300}, force_timeout : {60000},
              drain_timeout : {100}, signal_handling : {TRUE}]

\* a send that reaches no receiver
send_lost(ch, reason) == ch

\* broadcast::Sender::send
send(ch, reason) == Append(ch, reason)

\* start_signal_handling, the SIGTERM task: the first SIGTERM is broadcast and
\* the task ends; a later SIGTERM finds no task and has no effect
SigTerm ==
    /\ exit_code = Running
    /\ sd_config.signal_handling
    /\ signals < MaxSignals
    /\ signals' = signals + 1
    /\ IF sigterm_task = "waiting"
       THEN /\ channel' = send(channel, Signal(SIGTERM))
            /\ sigterm_task' = "done"
       ELSE UNCHANGED <<channel, sigterm_task>>
    /\ UNCHANGED <<sd_config, is_shutting_down, shutdown_reason, shutdown_started,
                   main_pc, guard_rx, guard_reason, sd_elapsed, phases, exit_code,
                   forced>>
    /\ UNCHANGED <<now, last, breakerVars, limiterVars, serveVars, acceptVars, codecVars, dataVars>>

\* start_signal_handling, the SIGINT task: every SIGINT is broadcast
SigInt ==
    /\ exit_code = Running
    /\ sd_config.signal_handling
    /\ signals < MaxSignals
    /\ signals' = signals + 1
    /\ channel' = send(channel, Signal(SIGINT))
    /\ UNCHANGED <<sd_config, is_shutting_down, shutdown_reason, shutdown_started,
                   sigterm_task, main_pc, guard_rx, guard_reason, sd_elapsed, phases,
                   exit_code, forced>>
    /\ UNCHANGED <<now, last, breakerVars, limiterVars, serveVars, acceptVars, codecVars, dataVars>>

\* the reasons initiate_shutdown is called with
InitiateReasons == {Request, Signal(SIGTERM)}

\* ShutdownManager::initiate_shutdown(reason): a call that finds the
\* shutdown in progress returns at once ("Shutdown already in progress")
InitiateShutdown ==
    /\ exit_code = Running
    /\ Len(initiated) < MaxInitiates
    /\ \E reason \in InitiateReasons :
          /\ initiated' = Append(initiated, [reason |-> reason, subscribed |-> subscribed,
                                     started |-> ~is_shutting_down])
          /\ IF is_shutting_down
             THEN UNCHANGED <<is_shutting_down, shutdown_reason, shutdown_started, channel>>
             ELSE /\ is_shutting_down' = TRUE
                  /\ shutdown_reason' = reason
                  /\ shutdown_started' = now
                  /\ channel' = send(channel, reason)
    /\ UNCHANGED <<sd_config, sigterm_task, main_pc, guard_rx, guard_reason,
                   sd_elapsed, phases, exit_code, forced, signals>>
    /\ UNCHANGED <<subscribed, rx, received>>
    /\ UNCHANGED <<now, last, breakerVars, limiterVars, serveVars, acceptVars, codecVars,
                   storeVars, registryVars, poolVars, queryVars>>

\* ShutdownManager::subscribe: the new receiver sees the reasons sent from
\* now on
Subscribe(r) ==
    /\ exit_code = Running
    /\ r \notin subscribed
    /\ subscribed' = subscribed \cup {r}
    /\ rx' = [rx EXCEPT ![r] = Len(channel)]
    /\ UNCHANGED <<received, initiated>>
    /\ UNCHANGED <<now, last, breakerVars, limiterVars, serveVars, lifeVars, codecVars,
                   storeVars, registryVars, poolVars, queryVars>>

\* rx.recv().await on a receiver of subscribe: the next reason, in the order
\* of sending
Recv(r) ==
    /\ exit_code = Running
    /\ r \in subscribed
    /\ rx[r] < Len(channel)
    /\ received' = [received EXCEPT ![r] = Append(@, channel[rx[r] + 1])]
    /\ rx' = [rx EXCEPT ![r] = @ + 1]
    /\ UNCHANGED <<subscribed, initiated>>
    /\ UNCHANGED <<now, last, breakerVars, limiterVars, serveVars, lifeVars, codecVars,
                   storeVars, registryVars, poolVars, queryVars>>

InitSubscriberVars ==
    /\ subscribed = {}
    /\ rx = [r \in Receivers |-> 0]
    /\ received = [r \in Receivers |-> <<>>]
    /\ initiated = <<>>

\* ProductionServer::start up to wait_for_shutdown_signal: the server task is
\* spawned and the guard subscribes to the channel, so that it sees the
\* reasons sent from now on
StartServer ==
    /\ exit_code = Running
    /\ main_pc = "init"
    /\ main_pc' = "waiting"
    /\ guard_rx' = Len(channel)
    /\ accept_pc' = "binding"
    /\ UNCHANGED <<sd_config, is_shutting_down, shutdown_reason, shutdown_started,
                   channel, sigterm_task, guard_reason, sd_elapsed, phases, exit_code,
                   forced, signals>>
    /\ UNCHANGED <<acceptor, max_connections, connection_count, backlog, client,
                   task_count, connections, conn_id, reads, reaper_runs, next_tick>>
    /\ UNCHANGED <<now, last, breakerVars, limiterVars, serveVars, codecVars, dataVars>>

\* ShutdownGuard::wait_for_shutdown_signal: rx.recv() returns the next reason
GuardRecv ==
    /\ exit_code = Running
    /\ main_pc = "waiting"
    /\ guard_rx < Len(channel)
    /\ guard_reason' = channel[guard_rx + 1]
    /\ guard_rx' = guard_rx + 1
    /\ main_pc' = "signalled"
    /\ UNCHANGED <<sd_config, is_shutting_down, shutdown_reason, shutdown_started,
                   channel, sigterm_task, sd_elapsed, phases, exit_code, forced,
                   signals>>
    /\ UNCHANGED <<now, last, breakerVars, limiterVars, serveVars, acceptVars, codecVars, dataVars>>

\* ShutdownManager::force_shutdown: std::process::exit(1)
force_shutdown == 1

\* ShutdownGuard::execute_shutdown, shutdown_with_timeout and the entry of
\* graceful_shutdown: without is_shutting_down it returns Err("Shutdown not
\* initiated"), which shutdown_with_timeout answers with force_shutdown
ExecuteShutdown ==
    /\ exit_code = Running
    /\ main_pc = "signalled"
    /\ IF ~is_shutting_down
       THEN /\ exit_code' = force_shutdown
            /\ forced' = "error"
            /\ main_pc' = "exited"
            /\ UNCHANGED sd_elapsed
       ELSE /\ main_pc' = "stop_new"
            /\ sd_elapsed' = 0
            /\ UNCHANGED <<exit_code, forced>>
    /\ UNCHANGED <<sd_config, is_shutting_down, shutdown_reason, shutdown_started,
                   channel, sigterm_task, guard_rx, guard_reason, phases, signals>>
    /\ UNCHANGED <<now, last, breakerVars, limiterVars, serveVars, acceptVars, codecVars, dataVars>>

\* graceful_shutdown, phase 1: stop_new_connections sleeps and returns
StopNewConnections ==
    /\ exit_code = Running
    /\ main_pc = "stop_new"
    /\ sd_elapsed + StopNewMillis <= sd_config.graceful_timeout
    /\ sd_elapsed' = sd_elapsed + StopNewMillis
    /\ phases' = Append(phases, "stop_new")
    /\ main_pc' = "drain"
    /\ UNCHANGED <<sd_config, is_shutting_down, shutdown_reason, shutdown_started,
                   channel, sigterm_task, guard_rx, guard_reason, exit_code, forced,
                   signals>>
    /\ UNCHANGED <<now, last, breakerVars, limiterVars, serveVars, acceptVars, codecVars, dataVars>>

\* drain_connections: a sleep under timeout(drain_timeout)
drain_connections(cfg) == Min(DrainMillis, cfg.drain_timeout)

\* graceful_shutdown, phase 2
DrainConnections ==
    /\ exit_code = Running
    /\ main_pc = "drain"
    /\ sd_elapsed + drain_connections(sd_config) <= sd_config.graceful_timeout
    /\ sd_elapsed' = sd_elapsed + drain_connections(sd_config)
    /\ phases' = Append(phases, "drain")
    /\ main_pc' = "cleanup"
    /\ UNCHANGED <<sd_config, is_shutting_down, shutdown_reason, shutdown_started,
                   channel, sigterm_task, guard_rx, guard_reason, exit_code, forced,
                   signals>>
    /\ UNCHANGED <<now, last, breakerVars, limiterVars, serveVars, acceptVars, codecVars, dataVars>>

\* graceful_shutdown, phase 3, with the cleanup function of
\* ProductionServer::start, which only logs; then start aborts the server
\* task and returns Ok, and the process ends
Cleanup ==
    /\ exit_code = Running
    /\ main_pc = "cleanup"
    /\ phases' = Append(phases, "cleanup")
    /\ main_pc' = "exited"
    /\ exit_code' = 0
    /\ accept_pc' = "aborted"
    /\ UNCHANGED <<sd_config, is_shutting_down, shutdown_reason, shutdown_started,
                   channel, sigterm_task, guard_rx, guard_reason, sd_elapsed, forced,
                   signals>>
    /\ UNCHANGED <<acceptor, max_connections, connection_count, backlog, client,
                   task_count, connections, conn_id, reads, reaper_runs, next_tick>>
    /\ UNCHANGED <<now, last, breakerVars, limiterVars, serveVars, codecVars, dataVars>>

\* the time at which the phase main_pc is in would complete
phase_end ==
    sd_elapsed + (IF main_pc = "stop_new" THEN StopNewMillis
                  ELSE drain_connections(sd_config))

\* shutdown_with_timeout, Err(_) arm: graceful_timeout elapses while
\* graceful_shutdown is pending
GracefulTimeout ==
    /\ exit_code = Running
    /\ main_pc \in {"stop_new", "drain"}
    /\ phase_end > sd_config.graceful_timeout
    /\ sd_elapsed' = sd_config.graceful_timeout
    /\ exit_code' = force_shutdown
    /\ forced' = "timeout"
    /\ main_pc' = "exited"
    /\ UNCHANGED <<sd_config, is_shutting_down, shutdown_reason, shutdown_started,
                   channel, sigterm_task, guard_rx, guard_reason, phases, signals>>
    /\ UNCHANGED <<now, last, breakerVars, limiterVars, serveVars, acceptVars, codecVars, dataVars>>

InitShutdownVars ==
    /\ is_shutting_down = FALSE
    /\ shutdown_reason = NoReason
    /\ shutdown_started = NoInstant
    /\ channel = <<>>
    /\ sigterm_task = "waiting"
    /\ guard_rx = 0
    /\ guard_reason = NoReason
    /\ sd_elapsed = 0
    /\ phases = <<>>
    /\ exit_code = Running
    /\ forced = "none"
    /\ signals = 0

(***************************************************************************)
(* Admission of connections: src/src/production_server.rs (accept loop),   *)
(* src/src/process_manager.rs, src/src/logger.rs (ConnectionTracker)       *)
(***************************************************************************)
NumClients == 3
MaxConnLimit == 2
ConnIdSpace == 2
MaxReads == 1
MaxReaperRuns == 1
MaxSweeps == 14

Clients == 1..NumClients
ConnIds == 0..(ConnIdSpace - 1)
Acceptors == {"server", "process_manager"}

\* a client's connection completes the handshake and waits in the listen
\* queue (clients connect in the order of their numbers)
ClientConnect(c) ==
    /\ exit_code = Running
    /\ acceptor = "server"
    /\ accept_pc \in {"loop", "sleeping"}
    /\ client[c] = "none"
    /\ \A d \in 1..(c - 1) : client[d] # "none"
    /\ client' = [client EXCEPT ![c] = "queued"]
    /\ backlog' = Append(backlog, c)
    /\ UNCHANGED <<acceptor, max_connections, accept_pc, connection_count,
                   task_count, connections, conn_id, reads, reaper_runs, next_tick>>
    /\ UNCHANGED <<now, last, breakerVars, limiterVars, serveVars, shutdownVars, codecVars, dataVars>>

\* start_mongodb_server: TcpListener::bind succeeds and the loop begins
Bind ==
    /\ exit_code = Running
    /\ accept_pc = "binding"
    /\ accept_pc' = "loop"
    /\ UNCHANGED <<acceptor, max_connections, connection_count, backlog, client,
                   task_count, connections, conn_id, reads, reaper_runs, next_tick>>
    /\ UNCHANGED <<now, last, breakerVars, limiterVars, serveVars, shutdownVars, codecVars, dataVars>>

\* start_mongodb_server: TcpListener::bind fails, server.start() returns Err
\* and the server task of ProductionServer::start sends ShutdownReason::Error
BindFails ==
    /\ exit_code = Running
    /\ accept_pc = "binding"
    /\ accept_pc' = "failed"
    /\ channel' = send(channel, Error)
    /\ UNCHANGED <<sd_config, is_shutting_down, shutdown_reason, shutdown_started,
                   sigterm_task, main_pc, guard_rx, guard_reason, sd_elapsed, phases,
                   exit_code, forced, signals>>
    /\ UNCHANGED <<acceptor, max_connections, connection_count, backlog, client,
                   task_count, connections, conn_id, reads, reaper_runs, next_tick>>
    /\ UNCHANGED <<now, last, breakerVars, limiterVars, serveVars, codecVars, dataVars>>

\* start_mongodb_server, the limit check at the top of the loop: at the limit
\* the loop sleeps 100 ms without calling accept
AcceptLimitSleep ==
    /\ exit_code = Running
    /\ accept_pc = "loop"
    /\ connection_count >= max_connections
    /\ accept_pc' = "sleeping"
    /\ UNCHANGED <<acceptor, max_connections, connection_count, backlog, client,
                   task_count, connections, conn_id, reads, reaper_runs, next_tick>>
    /\ UNCHANGED <<now, last, breakerVars, limiterVars, serveVars, shutdownVars, codecVars, dataVars>>

\* start_mongodb_server: the sleep is over, `continue`
AcceptWake ==
    /\ exit_code = Running
    /\ accept_pc = "sleeping"
    /\ accept_pc' = "loop"
    /\ UNCHANGED <<acceptor, max_connections, connection_count, backlog, client,
                   task_count, connections, conn_id, reads, reaper_runs, next_tick>>
    /\ UNCHANGED <<now, last, breakerVars, limiterVars, serveVars, shutdownVars, codecVars, dataVars>>

\* start_mongodb_server: the loop goes on to listener.accept()
accept_allowed(count, limit) == ~(count >= limit)

\* start_mongodb_server: listener.accept() returns a stream; the count is
\* incremented and the connection task is spawned with its own copy of it
Accept ==
    /\ exit_code = Running
    /\ accept_pc = "loop"
    /\ accept_allowed(connection_count, max_connections)
    /\ backlog # <<>>
    /\ LET c == Head(backlog) IN
          /\ connection_count' = connection_count + 1
          /\ client' = [client EXCEPT ![c] = "open"]
          /\ task_count' = [task_count EXCEPT ![c] = connection_count + 1]
    /\ backlog' = Tail(backlog)
    /\ UNCHANGED <<acceptor, max_connections, accept_pc, connections, conn_id,
                   reads, reaper_runs, next_tick>>
    /\ UNCHANGED <<now, last, breakerVars, limiterVars, serveVars, shutdownVars, codecVars, dataVars>>

\* handle_connection as the connection task runs it: one more turn of its
\* loop, stream.read() having returned a message
ServeTurn(c) ==
    /\ exit_code = Running
    /\ acceptor = "server"
    /\ client[c] = "open"
    /\ reads[c] < MaxReads
    /\ reads' = [reads EXCEPT ![c] = @ + 1]
    /\ UNCHANGED <<acceptor, max_connections, accept_pc, connection_count, backlog,
                   client, task_count, connections, conn_id, reaper_runs, next_tick>>
    /\ UNCHANGED <<now, last, breakerVars, limiterVars, serveVars, shutdownVars, codecVars, dataVars>>

\* the connection task after handle_connection has returned: it decrements
\* the count it owns and ends, dropping the stream
ConnectionTaskEnd(c) ==
    /\ exit_code = Running
    /\ acceptor = "server"
    /\ client[c] = "open"
    /\ client' = [client EXCEPT ![c] = "closed"]
    /\ task_count' = [task_count EXCEPT ![c] = @ - 1]
    /\ UNCHANGED <<acceptor, max_connections, accept_pc, connection_count, backlog,
                   connections, conn_id, reads, reaper_runs, next_tick>>
    /\ UNCHANGED <<now, last, breakerVars, limiterVars, serveVars, shutdownVars, codecVars, dataVars>>

\* ConnectionTracker::get_connection_count
get_connection_count == Cardinality(connections)

\* ProcessManager::handle_connection up to the limit check: at the limit the
\* stream is shut down and the call returns Err; below it the connection gets
\* its tracker key, the low 32 bits of a random UUID
PMHandleConnection(c) ==
    /\ exit_code = Running
    /\ acceptor = "process_manager"
    /\ client[c] = "none"
    /\ IF get_connection_count >= max_connections
       THEN /\ client' = [client EXCEPT ![c] = "rejected"]
            /\ UNCHANGED conn_id
       ELSE /\ client' = [client EXCEPT ![c] = "admitting"]
            /\ \E id \in ConnIds : conn_id' = [conn_id EXCEPT ![c] = id]
    /\ UNCHANGED <<acceptor, max_connections, accept_pc, connection_count, backlog,
                   task_count, connections, reads, reaper_runs, next_tick>>
    /\ UNCHANGED <<now, last, breakerVars, limiterVars, serveVars, shutdownVars, codecVars, dataVars>>

\* ConnectionTracker::add_connection as Ok (TRUE) or Err (FALSE)
add_connection_ok == ~(Cardinality(connections) >= max_connections)

\* ProcessManager::handle_connection from add_connection on: the tracker
\* refuses at the limit (the stream is shut down); else the key is inserted,
\* replacing an equal one, and the worker is spawned or spawning fails, in
\* which case the call returns Err with the key still in the tracker
PMAddConnection(c) ==
    /\ exit_code = Running
    /\ acceptor = "process_manager"
    /\ client[c] = "admitting"
    /\ IF ~add_connection_ok
       THEN /\ client' = [client EXCEPT ![c] = "rejected"]
            /\ UNCHANGED connections
       ELSE /\ connections' = connections \cup {conn_id[c]}
            /\ \E spawned \in BOOLEAN :
                  client' = [client EXCEPT ![c] = IF spawned THEN "open" ELSE "closed"]
    /\ UNCHANGED <<acceptor, max_connections, accept_pc, connection_count, backlog,
                   task_count, conn_id, reads, reaper_runs, next_tick>>
    /\ UNCHANGED <<now, last, breakerVars, limiterVars, serveVars, shutdownVars, codecVars, dataVars>>

\* ProcessManager::handle_connection, the end: forwarding is over and
\* cleanup_connection removes the key from the tracker
PMCleanup(c) ==
    /\ exit_code = Running
    /\ acceptor = "process_manager"
    /\ client[c] = "open"
    /\ client' = [client EXCEPT ![c] = "closed"]
    /\ connections' = connections \ {conn_id[c]}
    /\ UNCHANGED <<acceptor, max_connections, accept_pc, connection_count, backlog,
                   task_count, conn_id, reads, reaper_runs, next_tick>>
    /\ UNCHANGED <<now, last, breakerVars, limiterVars, serveVars, shutdownVars, codecVars, dataVars>>

\* a retain predicate that keeps every bucket
retained_all(e, t) == TRUE

\* RateLimiter::start_cleanup_task, the retain predicate (one hour)
retained(e, t) == ~e.present \/ t - e.last_request < 3600 * TicksPerSecond

\* RateLimiter::new, cleanup_interval (5 minutes)
CleanupInterval == 300 * TicksPerSecond

\* RateLimiter::start_cleanup_task: one turn of the spawned loop.
\* interval.tick() completes at once the first time and then once per
\* cleanup_interval; the turn then sweeps the buckets.
CleanupTaskTurn ==
    /\ exit_code = Running
    /\ now >= next_tick
    /\ next_tick' = next_tick + CleanupInterval
    /\ reaper_runs' = Min(reaper_runs + 1, MaxReaperRuns)
    /\ entry' = IF retained(entry, now) THEN entry ELSE NoEntry
    /\ UNCHANGED <<acceptor, max_connections, accept_pc, connection_count, backlog,
                   client, task_count, connections, conn_id, reads>>
    /\ UNCHANGED <<now, last, rl_config, rl_log, breakerVars, serveVars, shutdownVars,
                   codecVars, dataVars>>

\* the cleanup task is in interval.tick().await until its next tick is due:
\* the clock reaches next_tick and the task resumes
IntervalPasses ==
    /\ now < next_tick
    /\ next_tick <= MaxSweeps * CleanupInterval
    /\ now' = next_tick
    /\ last' = [op |-> "tick"]
    /\ UNCHANGED <<breakerVars, limiterVars, serveVars, lifeVars, codecVars, dataVars>>

InitAcceptVars ==
    /\ connection_count = 0
    /\ backlog = <<>>
    /\ client = [c \in Clients |-> "none"]
    /\ task_count = [c \in Clients |-> 0]
    /\ connections = {}
    /\ conn_id = [c \in Clients |-> 0]
    /\ reads = [c \in Clients |-> 0]
    /\ reaper_runs = 0
    /\ next_tick = 0

(***************************************************************************)
(* Framing: src/src/wire_protocol.rs as the serving loops of               *)
(* src/src/production_server.rs and src/src/documentdb_server.rs drive it  *)
(***************************************************************************)
MaxFrames == 2
MaxWrites == 2

HeaderLen == 16
ProductionBufferSize == 1024
DocumentDBBufferSize == 4096

\* The frames of the stream.  A frame is its layout: the opcode, the length
\* of the collection name (OP_QUERY), the length of its first BSON document
\* and the length of what follows that document (further OP_MSG sections).
FrameKinds ==
    {[opCode |-> OP_MSG, name |-> 0, doc |-> 5, extra |-> 0],
     [opCode |-> OP_MSG, name |-> 0, doc |-> 5, extra |-> 11],
     [opCode |-> OP_QUERY, name |-> 2, doc |-> 5, extra |-> 0]}

Streams == UNION {[1..k -> FrameKinds] : k \in 1..MaxFrames}

\* messageLength of a frame: header, flags, then kind byte and sections
\* (OP_MSG) or name, numberToSkip, numberToReturn and query (OP_QUERY)
message_length(f) ==
    IF f.opCode = OP_MSG
    THEN HeaderLen + 4 + 1 + f.doc + f.extra
    ELSE HeaderLen + 4 + (f.name + 1) + 4 + 4 + f.doc + f.extra

\* offset in the stream of the first byte of frame i
RECURSIVE frame_start(_, _)
frame_start(s, i) ==
    IF i = 1 THEN 0 ELSE frame_start(s, i - 1) + message_length(s[i - 1])

StreamLen(s) == frame_start(s, Len(s)) + message_length(s[Len(s)])

\* the frame that begins at offset p, or 0 when p is inside a frame
frame_at(s, p) ==
    IF \E i \in 1..Len(s) : frame_start(s, i) = p
    THEN CHOOSE i \in 1..Len(s) : frame_start(s, i) = p
    ELSE 0

ParseErr == [kind |-> "Err", frame |-> 0, sections |-> 0]
ParseOk(i, k) == [kind |-> "Ok", frame |-> i, sections |-> k]

\* OpQueryMessage::parse_bson_document on `avail` bytes that begin with a
\* document of doc_length bytes, as Ok (TRUE) or Err (FALSE)
parse_bson_document(doc_length, avail) ==
    /\ avail > 0                   \* "Empty BSON document"
    /\ ~(avail < 4)
    /\ ~(doc_length < 5)
    /\ ~(doc_length > avail)

\* OpMsgMessage::parse on the first n bytes of frame f and what follows it
op_msg_parse(i, f, n) ==
    IF n < 20 THEN ParseErr
    ELSE IF ~(20 < n) THEN ParseOk(i, 0)         \* no byte after the flags
    ELSE IF parse_bson_document(f.doc, n - 21) THEN ParseOk(i, 1)
    ELSE ParseErr

\* OpQueryMessage::parse on the first n bytes of frame f and what follows it
op_query_parse(i, f, n) ==
    IF n < 36 THEN ParseErr
    ELSE IF 20 + f.name >= n THEN ParseErr       \* name not null-terminated
    ELSE IF 21 + f.name + 4 > n THEN ParseErr
    ELSE IF 21 + f.name + 8 > n THEN ParseErr
    ELSE IF parse_bson_document(f.doc, n - (29 + f.name)) THEN ParseOk(i, 1)
    ELSE ParseErr

\* MessageHeader::parse as Ok (TRUE) or Err (FALSE); message_length is read
\* and not compared with anything
header_parse(n) == ~(n < HeaderLen)

\* WireProtocolHandler::parse_message on the n bytes at offset p: what it may
\* return.  Bytes that begin inside a frame are read as a header all the
\* same; what they hold is up to the sender.
wire_parse_message(s, p, n) ==
    IF ~header_parse(n) THEN {ParseErr}
    ELSE IF frame_at(s, p) = 0 THEN {ParseErr, ParseOk(0, 1)}
    ELSE LET i == frame_at(s, p) IN
         IF s[i].opCode = OP_QUERY THEN {op_query_parse(i, s[i], n)}
         ELSE {op_msg_parse(i, s[i], n)}

\* DocumentDBServer::parse_message on the n bytes at offset p
documentdb_parse_message(s, p, n) ==
    IF n < 16 THEN ParseErr ELSE ParseOk(frame_at(s, p), 0)

\* the client writes the next k bytes of the stream to its socket
ClientWrite ==
    /\ codec_open
    /\ writes < MaxWrites
    /\ \E k \in 1..(StreamLen(stream) - arrived) : arrived' = arrived + k
    /\ writes' = writes + 1
    /\ UNCHANGED <<stream, rd, yielded, codec_open>>
    /\ UNCHANGED <<now, last, breakerVars, limiterVars, serveVars, lifeVars, dataVars>>

\* ProductionFauxDBServer::handle_connection, one turn of the loop:
\* stream.read() returns the bytes that have arrived, up to the size of the
\* buffer, and parse_message gets exactly those
HandleConnectionRead ==
    /\ variant = "production"
    /\ codec_open
    /\ arrived > rd
    /\ LET n == Min(arrived - rd, ProductionBufferSize) IN
          /\ \E res \in wire_parse_message(stream, rd, n) :
                yielded' = Append(yielded, [at |-> rd, n |-> n, res |-> res])
          /\ rd' = rd + n
    /\ UNCHANGED <<stream, arrived, writes, codec_open>>
    /\ UNCHANGED <<now, last, breakerVars, limiterVars, serveVars, lifeVars, dataVars>>

\* DocumentDBServer::handle_client, one turn of the loop: parse_message gets
\* the bytes of one read; its Err ends the loop
HandleClientRead ==
    /\ variant = "documentdb"
    /\ codec_open
    /\ arrived > rd
    /\ LET n == Min(arrived - rd, DocumentDBBufferSize)
           res == documentdb_parse_message(stream, rd, n)
       IN  /\ yielded' = Append(yielded, [at |-> rd, n |-> n, res |-> res])
           /\ rd' = rd + n
           /\ codec_open' = (res.kind = "Ok")
    /\ UNCHANGED <<stream, arrived, writes>>
    /\ UNCHANGED <<now, last, breakerVars, limiterVars, serveVars, lifeVars, dataVars>>

\* server.rs handle_client, one turn of the loop: a read of fewer than 16
\* bytes is dropped and the loop goes on; otherwise the bytes of the read go
\* to the handler's parse_message, whose Err ends the loop
HandleClientLegacyRead ==
    /\ variant = "legacy"
    /\ codec_open
    /\ arrived > rd
    /\ LET n == Min(arrived - rd, DocumentDBBufferSize) IN
          /\ rd' = rd + n
          /\ IF ~(n >= 16)
             THEN UNCHANGED <<yielded, codec_open>>
             ELSE \E res \in wire_parse_message(stream, rd, n) :
                     /\ yielded' = Append(yielded, [at |-> rd, n |-> n, res |-> res])
                     /\ codec_open' = (res.kind = "Ok")
    /\ UNCHANGED <<stream, arrived, writes>>
    /\ UNCHANGED <<now, last, breakerVars, limiterVars, serveVars, lifeVars, dataVars>>

InitCodecVars ==
    /\ arrived = 0
    /\ rd = 0
    /\ writes = 0
    /\ yielded = <<>>
    /\ codec_open = TRUE

(***************************************************************************)
(* Storage commands: find, insert and update of                            *)
(* src/src/documentdb_server.rs, process_insert of                         *)
(* src/src/command_processor.rs and update_document of src/src/database.rs *)
(***************************************************************************)
MaxServed == 2
MaxBatch == 2

Engines == {"documentdb", "legacy", "database"}

\* A document of the collection, a filter or an update document: its _id,
\* its field a, and the value its $set sub-document gives to a; "none" for a
\* field the document does not have.
NoField == "none"
Doc(id, a, set) == [id |-> id, a |-> a, set |-> set]

\* the documents of the insert commands
InsertDocs == {Doc("x", "1", NoField), Doc("y", "2", NoField)}

\* the items of the updates array: q, u and upsert
UpdateItems ==
    {[q |-> Doc("x", NoField, NoField), u |-> Doc(NoField, NoField, "1"), upsert |-> TRUE],
     [q |-> Doc(NoField, "1", NoField), u |-> Doc(NoField, "2", NoField), upsert |-> FALSE]}

Batches(S) == UNION {[1..k -> S] : k \in 1..MaxBatch}

\* the response document of a storage command
StoreReply(ok, n, modified) == [ok |-> ok, n |-> n, nModified |-> modified]

\* what is remembered of a command that was served: the items the backend
\* was called for, in order, and the items on which the backend raised
Served(op, ordered, items, attempted, failed, reply) ==
    [op |-> op, ordered |-> ordered, items |-> items, attempted |-> attempted,
     failed |-> failed, reply |-> reply]

\* handle_insert_command: the _id of a document is not sent to the backend
skip_id(d) == [d EXCEPT !.id = NoField]

\* handle_insert_command, the loop over the documents from item i on: every
\* item is executed, and an Err of the backend is logged and passed over.
\* bad is the item on which the backend raises (0 for none).
RECURSIVE insert_loop(_, _, _, _, _)
insert_loop(t, docs, i, bad, count) ==
    IF i > Len(docs) THEN [table |-> t, n |-> count, attempted |-> <<>>]
    ELSE LET rest == IF i = bad
                     THEN insert_loop(t, docs, i + 1, bad, count)
                     ELSE insert_loop(Append(t, skip_id(docs[i])), docs, i + 1, bad,
                                      count + 1)
         IN  [rest EXCEPT !.attempted = <<i>> \o @]

\* DocumentDBServer::handle_insert_command
HandleInsertCommand ==
    /\ engine = "documentdb"
    /\ Len(served) < MaxServed
    /\ \E docs \in Batches(InsertDocs), ordered \in BOOLEAN :
       \E bad \in 0..Len(docs) :
          LET r == insert_loop(table, docs, 1, bad, 0) IN
          /\ table' = r.table
          /\ served' = Append(served,
                 Served("insert", ordered, docs, r.attempted, {bad} \ {0},
                        StoreReply(1, r.n, 0)))
    /\ UNCHANGED engine
    /\ UNCHANGED <<now, last, breakerVars, limiterVars, serveVars, lifeVars, codecVars,
                   registryVars, poolVars, subscriberVars, queryVars>>

\* the WHERE clause handle_update_command builds from q
where_clause(row, q) ==
    /\ q.id # NoField => row.id = q.id
    /\ q.a # NoField => row.a = q.a
    /\ q.set # NoField => row.set = q.set

\* the SET clause handle_update_command builds from u: the fields of $set,
\* then the fields given directly
set_clause(row, u) ==
    [id  |-> IF u.id # NoField THEN u.id ELSE row.id,
     a   |-> IF u.a # NoField THEN u.a ELSE IF u.set # NoField THEN u.set ELSE row.a,
     set |-> row.set]

\* the rows an UPDATE ... WHERE touches
RowsWhere(t, q) == {k \in 1..Len(t) : where_clause(t[k], q)}

\* handle_update_command, the loop over the updates from item i on: every
\* item is executed, upsert is not read, and an Err of the backend is logged
\* and passed over
RECURSIVE update_loop(_, _, _, _, _)
update_loop(t, updates, i, bad, count) ==
    IF i > Len(updates) THEN [table |-> t, n |-> count, attempted |-> <<>>]
    ELSE LET hit == RowsWhere(t, updates[i].q)
             t1 == [k \in 1..Len(t) |->
                       IF k \in hit THEN set_clause(t[k], updates[i].u) ELSE t[k]]
             rest == IF i = bad
                     THEN update_loop(t, updates, i + 1, bad, count)
                     ELSE update_loop(t1, updates, i + 1, bad, count + Cardinality(hit))
         IN  [rest EXCEPT !.attempted = <<i>> \o @]

\* DocumentDBServer::handle_update_command
HandleUpdateCommand ==
    /\ engine = "documentdb"
    /\ Len(served) < MaxServed
    /\ \E updates \in Batches(UpdateItems), ordered \in BOOLEAN :
       \E bad \in 0..Len(updates) :
          LET r == update_loop(table, updates, 1, bad, 0) IN
          /\ table' = r.table
          /\ served' = Append(served,
                 Served("update", ordered, updates, r.attempted, {bad} \ {0},
                        StoreReply(1, r.n, r.n)))
    /\ UNCHANGED engine
    /\ UNCHANGED <<now, last, breakerVars, limiterVars, serveVars, lifeVars, codecVars,
                   registryVars, poolVars, subscriberVars, queryVars>>

\* DocumentDBServer::handle_find_command: the rows of the query, or no rows
\* when the query fails, in a cursor document with ok: 1.0
HandleFindCommand ==
    /\ engine = "documentdb"
    /\ Len(served) < MaxServed
    /\ \E query_failed \in BOOLEAN :
          LET documents == IF query_failed THEN <<>> ELSE table IN
          served' = Append(served,
              Served("find", TRUE, <<>>, <<1>>, IF query_failed THEN {1} ELSE {},
                     StoreReply(1, Len(documents), 0)))
    /\ UNCHANGED <<engine, table>>
    /\ UNCHANGED <<now, last, breakerVars, limiterVars, serveVars, lifeVars, codecVars,
                   registryVars, poolVars, subscriberVars, queryVars>>

\* CommandProcessor::process_insert, the loop over the documents from item i
\* on: the Err of insert_document leaves the loop and the function
RECURSIVE process_insert_loop(_, _, _, _, _)
process_insert_loop(t, docs, i, bad, count) ==
    IF i > Len(docs) THEN [table |-> t, n |-> count, attempted |-> <<>>, ok |-> TRUE]
    ELSE IF i = bad THEN [table |-> t, n |-> count, attempted |-> <<i>>, ok |-> FALSE]
    ELSE LET rest == process_insert_loop(Append(t, docs[i]), docs, i + 1, bad, count + 1)
         IN  [rest EXCEPT !.attempted = <<i>> \o @]

\* CommandProcessor::process_insert; handle_client answers its Err with an
\* error response
ProcessInsert ==
    /\ engine = "legacy"
    /\ Len(served) < MaxServed
    /\ \E docs \in Batches(InsertDocs), ordered \in BOOLEAN :
       \E bad \in 0..Len(docs) :
          LET r == process_insert_loop(table, docs, 1, bad, 0) IN
          /\ table' = r.table
          /\ served' = Append(served,
                 Served("insert", ordered, docs, r.attempted, {bad} \ {0},
                        IF r.ok THEN StoreReply(1, r.n, 0) ELSE StoreReply(0, 0, 0)))
    /\ UNCHANGED engine
    /\ UNCHANGED <<now, last, breakerVars, limiterVars, serveVars, lifeVars, codecVars,
                   registryVars, poolVars, subscriberVars, queryVars>>

\* update_document: doc.insert(key, value) for every key of the update
apply_update(doc, update) ==
    [id  |-> IF update.id # NoField THEN update.id ELSE doc.id,
     a   |-> IF update.a # NoField THEN update.a ELSE doc.a,
     set |-> IF update.set # NoField THEN update.set ELSE doc.set]

\* data @> filter
contains(row, filter) ==
    /\ filter.id # NoField => row.id = filter.id
    /\ filter.a # NoField => row.a = filter.a
    /\ filter.set # NoField => row.set = filter.set

\* update_document, the loop over existing_docs from document i on: each
\* document, updated, is written to every row that contains the filter.
\* budget is the number of backend calls that succeed before one raises.
RECURSIVE update_existing(_, _, _, _, _, _, _)
update_existing(t, existing, i, filter, update, budget, count) ==
    IF i > Len(existing) THEN [table |-> t, count |-> count, ok |-> TRUE, budget |-> budget]
    ELSE IF budget = 0 THEN [table |-> t, count |-> count, ok |-> FALSE, budget |-> 0]
    ELSE LET doc == apply_update(existing[i], update)
             hit == {k \in 1..Len(t) : contains(t[k], filter)}
             t1 == [k \in 1..Len(t) |-> IF k \in hit THEN doc ELSE t[k]]
         IN  update_existing(t1, existing, i + 1, filter, update, budget - 1,
                             count + Cardinality(hit))

\* DatabaseManager::update_document.  query_documents does not read its
\* filter: existing_docs are all the documents of the collection.
update_document(t, filter, update, upsert, budget) ==
    IF budget = 0 THEN [table |-> t, count |-> 0, ok |-> FALSE]
    ELSE IF t = <<>> /\ ~upsert THEN [table |-> t, count |-> 0, ok |-> TRUE]
    ELSE LET r == update_existing(t, t, 1, filter, update, budget - 1, 0) IN
         IF ~r.ok THEN [table |-> r.table, count |-> r.count, ok |-> FALSE]
         ELSE IF t = <<>> /\ upsert
         THEN IF r.budget = 0 THEN [table |-> r.table, count |-> r.count, ok |-> FALSE]
              ELSE [table |-> Append(r.table, update), count |-> r.count + 1, ok |-> TRUE]
         ELSE [table |-> r.table, count |-> r.count, ok |-> TRUE]

\* the number of backend calls of update_document on a table of n rows
BackendCalls(n) == n + 2

\* an update served by DatabaseManager::update_document; the count it
\* returns is reported as n and nModified
UpdateDocument ==
    /\ engine = "database"
    /\ Len(served) < MaxServed
    /\ \E item \in UpdateItems, budget \in 0..BackendCalls(Len(table)) :
          LET r == update_document(table, item.q, item.u, item.upsert, budget) IN
          /\ table' = r.table
          /\ served' = Append(served,
                 Served("update", TRUE, <<item>>, <<1>>, IF r.ok THEN {} ELSE {1},
                        IF r.ok THEN StoreReply(1, r.count, r.count)
                        ELSE StoreReply(0, 0, 0)))
    /\ UNCHANGED engine
    /\ UNCHANGED <<now, last, breakerVars, limiterVars, serveVars, lifeVars, codecVars,
                   registryVars, poolVars, subscriberVars, queryVars>>

InitStoreVars ==
    /\ table = <<>>
    /\ served = <<>>

(***************************************************************************)
(* Command dispatch: extract_command_name of src/src/production_server.rs  *)
(* with the registry of src/src/mongodb_commands.rs, process_op_msg of     *)
(* src/src/documentdb_server.rs and of src/src/command_processor.rs        *)
(***************************************************************************)
MaxAnswered == 2
MaxKeys == 2

\* field names of a command document
Keys == {"ping", "find", "getMore", "insert", "mapReduce", "lsid", "nosuch"}
CursorIds == {0, 1}

\* A command document is the sequence of its field names, which are all
\* different, and the cursor id that its getMore field, if any, names.
KeySeqs ==
    {ks \in UNION {[1..k -> Keys] : k \in 1..MaxKeys} :
        \A i, j \in 1..Len(ks) : i # j => ks[i] # ks[j]}
CommandDocs == [keys : KeySeqs, id : CursorIds]

NoCommand == ""
HasKey(doc, key) == \E i \in 1..Len(doc.keys) : doc.keys[i] = key

\* extract_command_name, the loop: the first key that is not a protocol field
RECURSIVE first_command_key(_, _)
first_command_key(ks, i) ==
    IF i > Len(ks) THEN NoCommand
    ELSE IF ks[i] # "lsid" THEN ks[i]
    ELSE first_command_key(ks, i + 1)

\* ProductionFauxDBServer::extract_command_name
extract_command_name(doc) ==
    IF HasKey(doc, "find") THEN "find"
    ELSE IF HasKey(doc, "insert") THEN "insert"
    ELSE first_command_key(doc.keys, 1)

\* the command document's first field name, as keys().next() gives it
first_key(doc) == Head(doc.keys)

\* the response document of a command: ok, errmsg, code, the set holding
\* the id of its cursor (empty without a cursor), and whether it came from a
\* handler that serves the command ("handler"), from a handler that does
\* nothing of what the command asks and returns build_success_response
\* ("stub"), from the fallback for names without a handler ("fallback") or
\* from the error path ("error")
Answer(ok, errmsg, code, cursor, by) ==
    [ok |-> ok, errmsg |-> errmsg, code |-> code, cursor |-> cursor, by |-> by]

\* MongoDBCommandRegistry::build_success_response
build_success_response(by) == Answer(1, "", {}, {}, by)

\* MongoDBCommandRegistry::build_cursor_response_with_namespace
build_cursor_response == Answer(1, "", {}, {0}, "handler")

\* MongoDBCommandRegistry::handle_command with the handlers of
\* register_all_commands
registry_handle_command(command) ==
    CASE command = "ping"      -> build_success_response("handler")   \* handle_ping
      [] command = "find"      -> build_cursor_response               \* handle_find
      [] command = "getMore"   -> build_cursor_response               \* handle_get_more
      [] command = "insert"    -> build_success_response("stub")      \* handle_insert
      [] command = "mapReduce" -> build_success_response("stub")      \* handle_map_reduce
      [] OTHER -> Answer(0, "Unknown command", {}, {}, "error")

\* what is remembered of a command that was answered
Answered(doc, command, reply) == [request |-> doc, command |-> command, reply |-> reply]

\* ProductionFauxDBServer::handle_connection from the parsed document on
DispatchProduction ==
    /\ variant = "production"
    /\ Len(answered) < MaxAnswered
    /\ \E doc \in CommandDocs :
          LET command == extract_command_name(doc) IN
          answered' = Append(answered,
              Answered(doc, command,
                       IF command = NoCommand
                       THEN Answer(1, "", {}, {}, "fallback")    \* default ping response
                       ELSE registry_handle_command(command)))
    /\ UNCHANGED <<now, last, breakerVars, limiterVars, serveVars, lifeVars, codecVars,
                   storeVars, poolVars, subscriberVars, queryVars>>

\* DocumentDBServer::process_op_msg, the match on the command name
documentdb_handle(command) ==
    CASE command = "ping"   -> Answer(1, "", {}, {}, "handler")
      [] command = "find"   -> Answer(1, "", {}, {0}, "handler")
      [] command = "insert" -> Answer(1, "", {}, {}, "handler")
      [] OTHER -> Answer(1, "", {}, {}, "fallback")            \* handle_generic_command

\* DocumentDBServer::process_op_msg from the parsed document on
DispatchDocumentDB ==
    /\ variant = "documentdb"
    /\ Len(answered) < MaxAnswered
    /\ \E doc \in CommandDocs :
          answered' = Append(answered,
              Answered(doc, first_key(doc), documentdb_handle(first_key(doc))))
    /\ UNCHANGED <<now, last, breakerVars, limiterVars, serveVars, lifeVars, codecVars,
                   storeVars, poolVars, subscriberVars, queryVars>>

\* CommandProcessor::process_op_msg, the match on the command name; its Err
\* is answered by handle_client with an error response.  cursor is what the
\* response to find holds for its cursor.
legacy_handle(command, cursor) ==
    CASE command \in {"ping", "insert"} -> Answer(1, "", {}, {}, "handler")
      [] command = "find" -> Answer(1, "", {}, cursor, "handler")
      [] OTHER -> Answer(0, "Unknown command", {}, {}, "error")

\* CommandProcessor::process_op_msg from the parsed document on
DispatchLegacy ==
    /\ variant = "legacy"
    /\ Len(answered) < MaxAnswered
    /\ \E doc \in CommandDocs, cursor \in SUBSET {0} :
          answered' = Append(answered,
              Answered(doc, first_key(doc), legacy_handle(first_key(doc), cursor)))
    /\ UNCHANGED <<now, last, breakerVars, limiterVars, serveVars, lifeVars, codecVars,
                   storeVars, poolVars, subscriberVars, queryVars>>

InitRegistryVars == answered = <<>>

(***************************************************************************)
(* The backend connection pool (connection_pool.rs)                        *)
(***************************************************************************)

NumTasks == 3
MaxPoolSize == 2
MaxAcquireTimeout == 2
MaxWait == 3

Tasks == 1..NumTasks

\* ProductionPoolConfig, the fields that concern acquiring: max_size and
\* connection_timeout (in ticks)
PoolConfigs == [max_size : 1..MaxPoolSize, connection_timeout : 1..MaxAcquireTimeout]

\* a task that wants a backend connection: before get_connection ("idle"),
\* inside self.pool.get().await ("waiting", for `waited` ticks), owning a
\* PooledConnection ("holding"), or returned with the Err of get_connection
\* ("failed")
Acquirer(pc, waited, error) == [pc |-> pc, waited |-> waited, error |-> error]

\* the objects of the pool that are handed out
Outstanding == {t \in Tasks : acquire[t].pc = "holding"}

\* ProductionConnectionPool::new: PoolConfig::new(config.max_size) carries
\* the size and no timeout; config.connection_timeout is stored in
\* self.config and is not given to the pool
pool_wait_timeout(cfg) == {}

\* ProductionConnectionPool::get_connection up to self.pool.get().await: an
\* object is handed out at once when fewer than max_size are outstanding,
\* and the call is pending otherwise
GetConnection(t) ==
    /\ acquire[t].pc \in {"idle", "failed"}
    /\ IF Cardinality(Outstanding) < pool_config.max_size
       THEN /\ acquire' = [acquire EXCEPT ![t] = Acquirer("holding", 0, "")]
            /\ active_connections' = active_connections + 1
       ELSE /\ acquire' = [acquire EXCEPT ![t] = Acquirer("waiting", 0, "")]
            /\ UNCHANGED active_connections
    /\ UNCHANGED <<pool_config, connection_errors>>
    /\ UNCHANGED <<now, last, breakerVars, limiterVars, serveVars, lifeVars, codecVars,
                   storeVars, registryVars, subscriberVars, queryVars>>

\* get_connection, self.pool.get().await completes with an object that has
\* been given back
GetConnectionResumes(t) ==
    /\ acquire[t].pc = "waiting"
    /\ Cardinality(Outstanding) < pool_config.max_size
    /\ acquire' = [acquire EXCEPT ![t] = Acquirer("holding", 0, "")]
    /\ active_connections' = active_connections + 1
    /\ UNCHANGED <<pool_config, connection_errors>>
    /\ UNCHANGED <<now, last, breakerVars, limiterVars, serveVars, lifeVars, codecVars,
                   storeVars, registryVars, subscriberVars, queryVars>>

\* get_connection, the map_err arm: the pool reports an error (the backend
\* refuses the new connection, or the wait timeout of the pool, when it has
\* one, has passed)
GetConnectionFails(t) ==
    /\ \/ /\ acquire[t].pc \in {"idle", "failed"}
          /\ Cardinality(Outstanding) < pool_config.max_size
       \/ /\ acquire[t].pc = "waiting"
          /\ \E limit \in pool_wait_timeout(pool_config) : acquire[t].waited >= limit
    /\ connection_errors < MaxWait
    /\ acquire' = [acquire EXCEPT
                      ![t] = Acquirer("failed", 0, "Failed to get connection from pool")]
    /\ connection_errors' = connection_errors + 1
    /\ UNCHANGED <<pool_config, active_connections>>
    /\ UNCHANGED <<now, last, breakerVars, limiterVars, serveVars, lifeVars, codecVars,
                   storeVars, registryVars, subscriberVars, queryVars>>

\* Drop for PooledConnection: the object goes back to the pool
DropPooledConnection(t) ==
    /\ acquire[t].pc = "holding"
    /\ acquire' = [acquire EXCEPT ![t] = Acquirer("idle", 0, "")]
    /\ active_connections' = active_connections - 1
    /\ UNCHANGED <<pool_config, connection_errors>>
    /\ UNCHANGED <<now, last, breakerVars, limiterVars, serveVars, lifeVars, codecVars,
                   storeVars, registryVars, subscriberVars, queryVars>>

\* one tick passes for the tasks pending in self.pool.get().await
PoolTick ==
    /\ \E t \in Tasks : acquire[t].pc = "waiting"
    /\ \A t \in Tasks : acquire[t].pc = "waiting" => acquire[t].waited < MaxWait
    /\ acquire' = [t \in Tasks |->
                      IF acquire[t].pc = "waiting"
                      THEN [acquire[t] EXCEPT !.waited = @ + 1]
                      ELSE acquire[t]]
    /\ UNCHANGED <<pool_config, active_connections, connection_errors>>
    /\ UNCHANGED <<now, last, breakerVars, limiterVars, serveVars, lifeVars, codecVars,
                   storeVars, registryVars, subscriberVars, queryVars>>

InitPoolVars ==
    /\ acquire = [t \in Tasks |-> Acquirer("idle", 0, "")]
    /\ active_connections = 0
    /\ connection_errors = 0

(***************************************************************************)
(* BSON bodies: OpQueryMessage::parse_bson_document and                    *)
(* parse_bson_flexible of src/src/wire_protocol.rs, on bytes               *)
(***************************************************************************)
MaxBody == 5

\* the bytes a body is made of: the terminator, the element types binary
\* (0x05) and null (0x0A), which are name characters as well
BsonBytes == {0, 5, 10}
BsonBodies == UNION {[1..k -> BsonBytes] : k \in 1..MaxBody}

\* what the client sends where a document is expected: a length field that
\* says n, then a body; or fewer bytes than a length field
BsonInputs ==
    {<<>>, <<5>>, <<5, 0, 0>>}
        \cup {<<n, 0, 0, 0>> \o body : n \in 4..(MaxBody + 5), body \in BsonBodies}

\* u32::from_le_bytes of the four bytes from position i (counted from 1)
le32(data, i) ==
    data[i] + 256 * data[i + 1] + 65536 * data[i + 2] + 16777216 * data[i + 3]

BsonErr == [kind |-> "Err", doc |-> <<>>, used |-> 0]
BsonOk(doc, used) == [kind |-> "Ok", doc |-> doc, used |-> used]
NotParsed == [kind |-> "None", doc |-> <<>>, used |-> 0]

\* Document::insert: the value of a key that is present is replaced in place
insert(doc, key, value) ==
    IF \E i \in 1..Len(doc) : doc[i].key = key
    THEN [i \in 1..Len(doc) |->
             IF doc[i].key = key THEN [key |-> key, value |-> value] ELSE doc[i]]
    ELSE Append(doc, [key |-> key, value |-> value])

\* position of the null byte that ends the name beginning at p, inside a
\* document whose terminator is at n; 0 when there is none
name_end(data, p, n) ==
    IF \E q \in p..(n - 1) : data[q] = 0
    THEN CHOOSE q \in p..(n - 1) : data[q] = 0 /\ \A r \in p..(q - 1) : data[r] # 0
    ELSE 0

\* the element list of a document, from the type byte at p to the
\* terminator at n: type, name, value; null has no value bytes, binary has a
\* length, a subtype and that many bytes
RECURSIVE read_elements(_, _, _, _)
read_elements(data, p, n, doc) ==
    IF p = n THEN BsonOk(doc, n)
    ELSE IF p > n THEN BsonErr
    ELSE LET q == name_end(data, p + 1, n) IN
         IF q = 0 THEN BsonErr
         ELSE LET key == SubSeq(data, p + 1, q - 1) IN
              IF data[p] = 10
              THEN read_elements(data, q + 1, n,
                                 insert(doc, key, [type |-> 10, v |-> <<>>]))
              ELSE IF data[p] = 5
              THEN IF q + 5 > n - 1 THEN BsonErr
                   ELSE LET blen == le32(data, q + 1) IN
                        IF q + 5 + blen > n - 1 THEN BsonErr
                        ELSE read_elements(data, q + 6 + blen, n,
                                 insert(doc, key,
                                        [type |-> 5,
                                         v |-> SubSeq(data, q + 5, q + 5 + blen)]))
              ELSE BsonErr

\* bson::from_slice on a slice: the length field, the elements and the
\* terminator must fill it.  Every slice the gateway passes is either as
\* long as its length field says or shorter.
from_slice(data) ==
    IF Len(data) < 5 THEN BsonErr
    ELSE LET n == le32(data, 1) IN
         IF n # Len(data) THEN BsonErr
         ELSE IF data[n] # 0 THEN BsonErr
         ELSE read_elements(data, 5, n, <<>>)

\* approach 4 of parse_bson_flexible at offset i: the four bytes there read
\* as a length, and the bytes they span when they end in a null byte
embedded(data, i) ==
    LET length == le32(data, i + 1) IN
    IF length >= 5 /\ length <= Len(data) - i
       /\ data[i + length] = 0
    THEN from_slice(SubSeq(data, i + 1, i + length))
    ELSE BsonErr

\* OpQueryMessage::parse_bson_flexible
parse_bson_flexible(data) ==
    IF from_slice(data).kind = "Ok" THEN from_slice(data)
    ELSE IF Len(data) > 1 /\ from_slice(SubSeq(data, 1, Len(data) - 1)).kind = "Ok"
    THEN from_slice(SubSeq(data, 1, Len(data) - 1))
    ELSE IF /\ Len(data) >= 4
            /\ le32(data, 1) <= Len(data)
            /\ le32(data, 1) >= 5
            /\ from_slice(SubSeq(data, 1, le32(data, 1))).kind = "Ok"
    THEN from_slice(SubSeq(data, 1, le32(data, 1)))
    ELSE LET found == {i \in 0..(Min(10, Len(data) - 4) - 1) :
                           embedded(data, i).kind = "Ok"}
         IN  IF found # {}
             THEN embedded(data, CHOOSE i \in found : \A j \in found : i <= j)
             ELSE BsonErr

\* the document of the final fallback: { ok: 1 }
fallback_doc == insert(<<>>, <<111, 107>>, [type |-> 16, v |-> <<1>>])

\* OpQueryMessage::parse_bson_document on the bytes themselves
OpQueryMessage_parse_bson_document(data) ==
    IF Len(data) = 0 THEN BsonErr
    ELSE IF Len(data) < 4 THEN BsonErr
    ELSE LET doc_length == le32(data, 1) IN
         IF doc_length < 5 THEN BsonErr
         ELSE IF doc_length > Len(data) THEN BsonErr
         ELSE IF doc_length > 16 * 1024 * 1024 THEN BsonErr
         ELSE IF data[doc_length] # 0 THEN BsonErr
         ELSE LET doc_data == SubSeq(data, 1, doc_length) IN
              IF from_slice(doc_data).kind = "Ok"
              THEN BsonOk(from_slice(doc_data).doc, doc_length)
              ELSE IF parse_bson_flexible(doc_data).kind = "Ok"
              THEN BsonOk(parse_bson_flexible(doc_data).doc, doc_length)
              ELSE BsonOk(fallback_doc, doc_length)

\* OpQueryMessage::parse and OpMsgMessage::parse reach the document of the
\* message and hand its bytes to parse_bson_document
ParseBsonDocument ==
    /\ bson_parsed = NotParsed
    /\ bson_parsed' = OpQueryMessage_parse_bson_document(bson_data)
    /\ UNCHANGED <<bson_data, pipelineVars, txnVars>>
    /\ UNCHANGED <<now, last, breakerVars, limiterVars, serveVars, lifeVars, codecVars,
                   storeVars, registryVars, poolVars, subscriberVars>>

InitBsonIdle ==
    /\ bson_data = <<>>
    /\ bson_parsed = NotParsed

(***************************************************************************)
(* Aggregation: the in-memory stages of src/src/aggregation.rs and the     *)
(* SQL translation of src/src/aggregation_pipeline.rs                      *)
(***************************************************************************)
MaxDocs == 3
MaxStages == 2
MaxValue == 2
MaxCount == 2
MaxOps == 2

\* documents { a: v }
FieldValues == 1..MaxValue
Collections == UNION {[1..k -> FieldValues] : k \in 0..MaxDocs}

\* the operators a client puts in a filter: one both paths know and one
\* neither does
Operators == {"$gt", "$mod"}

\* the condition on field a: a value, or a document of operators whose keys
\* are distinct
OperatorDocs ==
    {ops \in UNION {[1..k -> [op : Operators, value : FieldValues]] : k \in 1..MaxOps} :
        \A i, j \in 1..Len(ops) : ops[i].op = ops[j].op => i = j}
Filters ==
    {[direct |-> TRUE, value |-> v, ops |-> <<>>] : v \in FieldValues}
        \cup {[direct |-> FALSE, value |-> 0, ops |-> ops] : ops \in OperatorDocs}

NoFilter == [direct |-> TRUE, value |-> 0, ops |-> <<>>]
Match(filter) == [kind |-> "$match", filter |-> filter, n |-> 0]
Limit(n) == [kind |-> "$limit", filter |-> NoFilter, n |-> n]
Skip(n) == [kind |-> "$skip", filter |-> NoFilter, n |-> n]
StageKinds ==
    {Match(f) : f \in Filters} \cup {Limit(n) : n \in 0..MaxCount}
        \cup {Skip(n) : n \in 0..MaxCount}
Pipelines == UNION {[1..k -> StageKinds] : k \in 1..MaxStages}

NotRun == [kind |-> "None", query |-> <<>>, docs |-> <<>>]
Rows(docs) == [kind |-> "Ok", query |-> <<>>, docs |-> docs]
RowsErr == [kind |-> "Err", query |-> <<>>, docs |-> <<>>]

\* AggregationProcessor::evaluate_field_condition, from operator i on:
\* an operator that is not matched is skipped
RECURSIVE evaluate_field_condition(_, _, _)
evaluate_field_condition(field_value, condition, i) ==
    IF i > Len(condition) THEN TRUE
    ELSE IF condition[i].op = "$gt" /\ ~(field_value > condition[i].value) THEN FALSE
    ELSE evaluate_field_condition(field_value, condition, i + 1)

\* AggregationProcessor::document_matches_criteria on { a: field_value }
document_matches_criteria(field_value, criteria) ==
    IF criteria.direct THEN field_value = criteria.value
    ELSE evaluate_field_condition(field_value, criteria.ops, 1)

\* AggregationProcessor::process_match_stage
process_match_stage(input, stage) ==
    LET keep(d) == document_matches_criteria(d, stage.filter)
    IN  SelectSeq(input, keep)

\* AggregationProcessor::process_limit_stage: input.iter().take(limit)
process_limit_stage(input, stage) == SubSeq(input, 1, Min(stage.n, Len(input)))

\* AggregationProcessor::process_skip_stage: input.iter().skip(skip)
process_skip_stage(input, stage) == SubSeq(input, Min(stage.n, Len(input)) + 1, Len(input))

\* AggregationProcessor::process_pipeline_with_input, from stage i on
RECURSIVE process_pipeline_with_input(_, _, _)
process_pipeline_with_input(results, pipeline, i) ==
    IF i > Len(pipeline) THEN results
    ELSE process_pipeline_with_input(
             CASE pipeline[i].kind = "$match" -> process_match_stage(results, pipeline[i])
               [] pipeline[i].kind = "$limit" -> process_limit_stage(results, pipeline[i])
               [] pipeline[i].kind = "$skip" -> process_skip_stage(results, pipeline[i])
               [] OTHER -> results,
             pipeline, i + 1)

\* the pieces of the text of a query
Tok(t, op, value) == [t |-> t, op |-> op, value |-> value]
Word(t) == Tok(t, "", 0)
SqlErr(msg) == [kind |-> "Err", msg |-> msg, clause |-> <<>>]
SqlOk(clause) == [kind |-> "Ok", msg |-> "", clause |-> clause]

\* AggregationPipeline::field_condition_to_sql for field a
field_condition_to_sql(value) ==
    IF ~value.direct
    THEN IF Len(value.ops) = 1
         THEN IF value.ops[1].op = "$gt"
              THEN SqlOk(<<Tok("cond", ">", value.ops[1].value)>>)
              ELSE SqlErr("Unsupported operator")
         ELSE SqlErr("Complex operators not yet supported")
    ELSE SqlOk(<<Tok("cond", "=", value.value)>>)

\* AggregationPipeline::filter_to_sql: the conditions of the fields, joined
\* by AND
filter_to_sql(filter) == field_condition_to_sql(filter)

\* str::replace("WHERE", "AND <where_clause>") on the text of the query
RECURSIVE replace_where(_, _)
replace_where(query, clause) ==
    IF query = <<>> THEN <<>>
    ELSE (IF Head(query).t = "WHERE" THEN <<Word("AND")>> \o clause
          ELSE <<Head(query)>>)
         \o replace_where(Tail(query), clause)

NoClause == -1

\* the loop of AggregationPipeline::to_sql over the stages, from stage i on;
\* st is current_query, has_where, limit_clause and skip_clause
RECURSIVE to_sql_stages(_, _, _)
to_sql_stages(pipeline, i, st) ==
    IF i > Len(pipeline) THEN st
    ELSE LET stage == pipeline[i] IN
         to_sql_stages(pipeline, i + 1,
            CASE stage.kind = "$match" ->
                    IF filter_to_sql(stage.filter).kind = "Ok"
                    THEN IF st.has_where
                         THEN [st EXCEPT !.current_query =
                                  replace_where(@, filter_to_sql(stage.filter).clause)]
                         ELSE [st EXCEPT !.current_query =
                                  @ \o <<Word("WHERE")>> \o filter_to_sql(stage.filter).clause,
                                         !.has_where = TRUE]
                    ELSE st
              [] stage.kind = "$limit" -> [st EXCEPT !.limit_clause = stage.n]
              [] stage.kind = "$skip" -> [st EXCEPT !.skip_clause = stage.n]
              [] OTHER -> st)

\* AggregationPipeline::to_sql: the text of the query
to_sql(pipeline) ==
    LET st == to_sql_stages(pipeline, 1,
                  [current_query |-> <<Word("SELECT *"), Word("FROM")>>,
                   has_where |-> FALSE, limit_clause |-> NoClause,
                   skip_clause |-> NoClause])
    IN  IF st.skip_clause # NoClause
        THEN IF st.limit_clause # NoClause
             THEN st.current_query \o <<Tok("LIMIT", "", st.limit_clause),
                                         Tok("OFFSET", "", st.skip_clause)>>
             ELSE st.current_query \o <<Tok("OFFSET", "", st.skip_clause)>>
        ELSE IF st.limit_clause # NoClause
             THEN st.current_query \o <<Tok("LIMIT", "", st.limit_clause)>>
             ELSE st.current_query

\* the backend on the text of a query, for the texts to_sql writes: SELECT *
\* FROM the collection, WHERE with one condition, LIMIT, OFFSET; any other
\* text is a syntax error.  The rows come in the order of a scan: the
\* condition selects, OFFSET drops, LIMIT takes.
sql_holds(cond, v) == IF cond.op = ">" THEN v > cond.value ELSE v = cond.value
run_query(query, docs) ==
    LET rest == SubSeq(query, 3, Len(query))
        has_where == Len(rest) >= 2 /\ rest[1].t = "WHERE" /\ rest[2].t = "cond"
        tail == IF has_where THEN SubSeq(rest, 3, Len(rest)) ELSE rest
        keep(d) == ~has_where \/ sql_holds(rest[2], d)
        selected == SelectSeq(docs, keep)
        limit == IF tail # <<>> /\ tail[1].t = "LIMIT" THEN tail[1].value ELSE NoClause
        offset == IF tail # <<>> /\ tail[Len(tail)].t = "OFFSET"
                  THEN tail[Len(tail)].value ELSE NoClause
        shape == (IF limit # NoClause THEN <<"LIMIT">> ELSE <<>>)
                     \o (IF offset # NoClause THEN <<"OFFSET">> ELSE <<>>)
        dropped == IF offset = NoClause THEN selected
                   ELSE SubSeq(selected, Min(offset, Len(selected)) + 1, Len(selected))
    IN  IF [i \in 1..Len(tail) |-> tail[i].t] # shape THEN RowsErr
        ELSE IF limit = NoClause THEN Rows(dropped)
        ELSE Rows(SubSeq(dropped, 1, Min(limit, Len(dropped))))

\* the pipeline is pushed down: to_sql writes the query and the backend
\* answers it
PushDown ==
    /\ pushed = NotRun
    /\ pushed' = [run_query(to_sql(stages), input_docs) EXCEPT !.query = to_sql(stages)]
    /\ UNCHANGED <<input_docs, stages, processed, bsonVars, txnVars>>
    /\ UNCHANGED <<now, last, breakerVars, limiterVars, serveVars, lifeVars, codecVars,
                   storeVars, registryVars, poolVars, subscriberVars>>

\* the pipeline is processed in memory
ProcessPipeline ==
    /\ processed = NotRun
    /\ processed' = Rows(process_pipeline_with_input(input_docs, stages, 1))
    /\ UNCHANGED <<input_docs, stages, pushed, bsonVars, txnVars>>
    /\ UNCHANGED <<now, last, breakerVars, limiterVars, serveVars, lifeVars, codecVars,
                   storeVars, registryVars, poolVars, subscriberVars>>

InitPipelineIdle ==
    /\ input_docs = <<>>
    /\ stages = <<>>
    /\ pushed = NotRun
    /\ processed = NotRun

(***************************************************************************)
(* Transactions: TransactionManager of src/src/transactions.rs             *)
(***************************************************************************)
NumSessions == 2
MaxTxns == 101
MaxEndable == 2

Sessions == 1..NumSessions

\* Semaphore::new(100)
TransactionPermits == 100

\* the transactions whose commit or abort the clients ask for
EndableIds == 1..MaxEndable

Holding == {s \in Sessions : txn_pc[s] = "holding"}

\* TransactionManager::start_transaction up to the permit: acquire().await
\* takes a permit of the semaphore, or waits while there is none
StartAcquire(s) ==
    /\ txn_pc[s] = "idle"
    /\ next_txn + Cardinality(Holding) < MaxTxns
    /\ transaction_semaphore > 0
    /\ transaction_semaphore' = transaction_semaphore - 1
    /\ txn_pc' = [txn_pc EXCEPT ![s] = "holding"]
    /\ UNCHANGED <<active_transactions, next_txn, txn_log, bsonVars, pipelineVars>>
    /\ UNCHANGED <<now, last, breakerVars, limiterVars, serveVars, lifeVars, codecVars,
                   storeVars, registryVars, poolVars, subscriberVars>>

\* TransactionManager::start_transaction from the permit to its return: a
\* new id (Uuid::new_v4, which does not repeat) is inserted in
\* active_transactions, and _permit is dropped as the function returns
StartInsert(s) ==
    /\ txn_pc[s] = "holding"
    /\ next_txn' = next_txn + 1
    /\ active_transactions' = active_transactions \cup {next_txn + 1}
    /\ transaction_semaphore' = transaction_semaphore + 1
    /\ txn_pc' = [txn_pc EXCEPT ![s] = "idle"]
    /\ txn_log' = [op |-> "start", id |-> next_txn + 1, ok |-> TRUE]
    /\ UNCHANGED <<bsonVars, pipelineVars>>
    /\ UNCHANGED <<now, last, breakerVars, limiterVars, serveVars, lifeVars, codecVars,
                   storeVars, registryVars, poolVars, subscriberVars>>

\* TransactionManager::commit_transaction: the entry is removed, or the call
\* fails with "Transaction not found"; then the operations run on a
\* connection of the pool, which may fail
CommitTransaction ==
    /\ \E id \in EndableIds :
          IF id \in active_transactions
          THEN /\ active_transactions' = active_transactions \ {id}
               /\ \E ok \in BOOLEAN : txn_log' = [op |-> "commit", id |-> id, ok |-> ok]
          ELSE /\ txn_log' = [op |-> "commit", id |-> id, ok |-> FALSE]
               /\ UNCHANGED active_transactions
    /\ UNCHANGED <<transaction_semaphore, txn_pc, next_txn, bsonVars, pipelineVars>>
    /\ UNCHANGED <<now, last, breakerVars, limiterVars, serveVars, lifeVars, codecVars,
                   storeVars, registryVars, poolVars, subscriberVars>>

\* TransactionManager::abort_transaction
AbortTransaction ==
    /\ \E id \in EndableIds :
          /\ active_transactions' = active_transactions \ {id}
          /\ txn_log' = [op |-> "abort", id |-> id, ok |-> TRUE]
    /\ UNCHANGED <<transaction_semaphore, txn_pc, next_txn, bsonVars, pipelineVars>>
    /\ UNCHANGED <<now, last, breakerVars, limiterVars, serveVars, lifeVars, codecVars,
                   storeVars, registryVars, poolVars, subscriberVars>>

\* TransactionManager::new
InitTxnVars ==
    /\ transaction_semaphore = TransactionPermits
    /\ active_transactions = {}
    /\ txn_pc = [s \in Sessions |-> "idle"]
    /\ next_txn = 0
    /\ txn_log = [op |-> "none", id |-> 0, ok |-> TRUE]

InitQueryIdle ==
    /\ InitBsonIdle
    /\ InitPipelineIdle
    /\ InitTxnVars

(***************************************************************************)
(* Specifications                                                          *)
(***************************************************************************)
\* the ShutdownConfig of initialize_shutdown_manager
ProductionShutdownConfig ==
    [graceful_timeout |-> 30000, force_timeout |-> 60000, drain_timeout |-> 10000,
     signal_handling |-> TRUE]
FixedStream == [i \in 1..1 |-> [opCode |-> OP_MSG, name |-> 0, doc |-> 5, extra |-> 0]]

\* the shutdown manager, the accept loop and the codec before the server starts
InitLifeIdle ==
    /\ sd_config = ProductionShutdownConfig
    /\ InitShutdownVars
    /\ main_pc = "init"
    /\ acceptor = "server"
    /\ max_connections = 1
    /\ accept_pc = "idle"
    /\ InitAcceptVars
InitCodecIdle ==
    /\ stream = FixedStream
    /\ InitCodecVars

\* no storage command has been served
\* ProductionPoolConfig::default, scaled
FixedPoolConfig == [max_size |-> 2, connection_timeout |-> 1]

InitDataIdle ==
    /\ engine = "documentdb"
    /\ InitStoreVars
    /\ InitRegistryVars
    /\ pool_config = FixedPoolConfig
    /\ InitPoolVars
    /\ InitSubscriberVars
    /\ InitQueryIdle

FixedBreakerConfig ==
    [failure_threshold |-> 1, success_threshold |-> 1, volume_threshold |-> 1,
     sleep_window |-> 1]
FixedRateLimitConfig ==
    [requests_per_second |-> 1, burst_size |-> 1,
     window_size_seconds |-> WindowSeconds, enabled |-> TRUE]

InitBreaker ==
    /\ now = 0
    /\ last = NoStep
    /\ config \in Configs
    /\ InitBreakerVars
    /\ rl_config = FixedRateLimitConfig
    /\ InitLimiterVars
    /\ variant = "production"
    /\ InitServeVars
    /\ InitDataIdle
    /\ InitLifeIdle
    /\ InitCodecIdle

NextBreaker ==
    \/ \E p \in Callers : CallCheck(p)
    \/ \E p \in Callers : CallComplete(p)
    \/ BreakerReset
    \/ Tick

SpecBreaker == InitBreaker /\ [][NextBreaker]_vars

InitLimiter ==
    /\ now = 0
    /\ last = NoStep
    /\ config = FixedBreakerConfig
    /\ InitBreakerVars
    /\ rl_config \in RateLimitConfigs
    /\ InitLimiterVars
    /\ variant = "production"
    /\ InitServeVars
    /\ InitDataIdle
    /\ InitLifeIdle
    /\ InitCodecIdle

NextLimiter ==
    \/ CheckRateLimit
    \/ Tick

SpecLimiter == InitLimiter /\ [][NextLimiter]_vars

InitServe ==
    /\ now = 0
    /\ last = NoStep
    /\ config = FixedBreakerConfig
    /\ InitBreakerVars
    /\ rl_config = FixedRateLimitConfig
    /\ InitLimiterVars
    /\ variant \in Variants
    /\ InitServeVars
    /\ InitDataIdle
    /\ InitLifeIdle
    /\ InitCodecIdle

NextServe ==
    \/ \E c \in Conns : ClientSend(c)
    \/ \E c \in Conns : ClientHangup(c)
    \/ \E c \in Conns : HandleConnection(c)
    \/ \E c \in Conns : HandleClientDocumentDB(c)
    \/ \E c \in Conns : HandleClientLegacy(c)
    \/ \E c \in Conns : ReadEof(c)

SpecServe == InitServe /\ [][NextServe]_vars

InitShutdown ==
    /\ now = 0
    /\ last = NoStep
    /\ config = FixedBreakerConfig
    /\ InitBreakerVars
    /\ rl_config = FixedRateLimitConfig
    /\ InitLimiterVars
    /\ variant = "production"
    /\ InitServeVars
    /\ InitDataIdle
    /\ sd_config \in ShutdownConfigs
    /\ InitShutdownVars
    /\ main_pc = "init"
    /\ acceptor = "server"
    /\ max_connections \in 1..MaxConnLimit
    /\ accept_pc = "idle"
    /\ InitAcceptVars
    /\ InitCodecIdle

NextShutdown ==
    \/ SigTerm
    \/ SigInt
    \/ InitiateShutdown
    \/ StartServer
    \/ GuardRecv
    \/ ExecuteShutdown
    \/ StopNewConnections
    \/ DrainConnections
    \/ Cleanup
    \/ GracefulTimeout
    \/ Bind
    \/ BindFails
    \/ \E c \in Clients : ClientConnect(c)
    \/ AcceptLimitSleep
    \/ AcceptWake
    \/ Accept
    \/ \E c \in Clients : ServeTurn(c)
    \/ \E c \in Clients : ConnectionTaskEnd(c)
    \/ CleanupTaskTurn

SpecShutdown == InitShutdown /\ [][NextShutdown]_vars

\* the server is up: the accept loop runs, or the ProcessManager is handed
\* the streams
InitAccept ==
    /\ now = 0
    /\ last = NoStep
    /\ config = FixedBreakerConfig
    /\ InitBreakerVars
    /\ rl_config = FixedRateLimitConfig
    /\ InitLimiterVars
    /\ variant = "production"
    /\ InitServeVars
    /\ InitDataIdle
    /\ sd_config = ProductionShutdownConfig
    /\ InitShutdownVars
    /\ main_pc = "waiting"
    /\ acceptor \in Acceptors
    /\ max_connections \in 1..MaxConnLimit
    /\ accept_pc = IF acceptor = "server" THEN "loop" ELSE "idle"
    /\ InitAcceptVars
    /\ InitCodecIdle

NextAccept ==
    \/ \E c \in Clients : ClientConnect(c)
    \/ AcceptLimitSleep
    \/ AcceptWake
    \/ Accept
    \/ \E c \in Clients : ConnectionTaskEnd(c)
    \/ \E c \in Clients : PMHandleConnection(c)
    \/ \E c \in Clients : PMAddConnection(c)
    \/ \E c \in Clients : PMCleanup(c)

SpecAccept == InitAccept /\ [][NextAccept]_vars

InitCodec ==
    /\ now = 0
    /\ last = NoStep
    /\ config = FixedBreakerConfig
    /\ InitBreakerVars
    /\ rl_config = FixedRateLimitConfig
    /\ InitLimiterVars
    /\ variant \in Variants
    /\ InitServeVars
    /\ InitDataIdle
    /\ InitLifeIdle
    /\ stream \in Streams
    /\ InitCodecVars

NextCodec ==
    \/ ClientWrite
    \/ HandleConnectionRead
    \/ HandleClientRead
    \/ HandleClientLegacyRead

SpecCodec == InitCodec /\ [][NextCodec]_vars


InitStore ==
    /\ now = 0
    /\ last = NoStep
    /\ config = FixedBreakerConfig
    /\ InitBreakerVars
    /\ rl_config = FixedRateLimitConfig
    /\ InitLimiterVars
    /\ variant = "production"
    /\ InitServeVars
    /\ InitLifeIdle
    /\ InitCodecIdle
    /\ engine \in Engines
    /\ InitStoreVars
    /\ InitRegistryVars
    /\ pool_config = FixedPoolConfig
    /\ InitPoolVars
    /\ InitSubscriberVars
    /\ InitQueryIdle

NextStore ==
    \/ HandleInsertCommand
    \/ HandleUpdateCommand
    \/ HandleFindCommand
    \/ ProcessInsert
    \/ UpdateDocument

SpecStore == InitStore /\ [][NextStore]_vars


InitRegistry ==
    /\ now = 0
    /\ last = NoStep
    /\ config = FixedBreakerConfig
    /\ InitBreakerVars
    /\ rl_config = FixedRateLimitConfig
    /\ InitLimiterVars
    /\ variant \in Variants
    /\ InitServeVars
    /\ InitDataIdle
    /\ InitLifeIdle
    /\ InitCodecIdle

NextRegistry ==
    \/ DispatchProduction
    \/ DispatchDocumentDB
    \/ DispatchLegacy

SpecRegistry == InitRegistry /\ [][NextRegistry]_vars


InitPool ==
    /\ now = 0
    /\ last = NoStep
    /\ config = FixedBreakerConfig
    /\ InitBreakerVars
    /\ rl_config = FixedRateLimitConfig
    /\ InitLimiterVars
    /\ variant = "production"
    /\ InitServeVars
    /\ engine = "documentdb"
    /\ InitStoreVars
    /\ InitRegistryVars
    /\ pool_config \in PoolConfigs
    /\ InitPoolVars
    /\ InitSubscriberVars
    /\ InitQueryIdle
    /\ InitLifeIdle
    /\ InitCodecIdle

NextPool ==
    \/ \E t \in Tasks : GetConnection(t)
    \/ \E t \in Tasks : GetConnectionResumes(t)
    \/ \E t \in Tasks : GetConnectionFails(t)
    \/ \E t \in Tasks : DropPooledConnection(t)
    \/ PoolTick

SpecPool == InitPool /\ [][NextPool]_vars


InitReaper ==
    /\ now = 0
    /\ last = NoStep
    /\ config = FixedBreakerConfig
    /\ InitBreakerVars
    /\ rl_config = FixedRateLimitConfig
    /\ InitLimiterVars
    /\ variant = "production"
    /\ InitServeVars
    /\ InitDataIdle
    /\ InitLifeIdle
    /\ InitCodecIdle

NextReaper ==
    \/ CheckRateLimit
    \/ CleanupTaskTurn
    \/ IntervalPasses

\* the cleanup task is a spawned task of the runtime: it is polled when its
\* interval fires and when the write lock on the buckets, which
\* check_rate_limit holds without awaiting, is handed to it; the clock advances
SpecReaper ==
    /\ InitReaper
    /\ [][NextReaper]_vars
    /\ WF_vars(CleanupTaskTurn)
    /\ WF_vars(IntervalPasses)

InitSubscribe ==
    /\ now = 0
    /\ last = NoStep
    /\ config = FixedBreakerConfig
    /\ InitBreakerVars
    /\ rl_config = FixedRateLimitConfig
    /\ InitLimiterVars
    /\ variant = "production"
    /\ InitServeVars
    /\ InitDataIdle
    /\ InitLifeIdle
    /\ InitCodecIdle

NextSubscribe ==
    \/ \E r \in Receivers : Subscribe(r)
    \/ InitiateShutdown
    \/ SigTerm
    \/ SigInt
    \/ \E r \in Receivers : Recv(r)

\* a task that awaits rx.recv() is woken by every send on the channel
SpecSubscribe ==
    /\ InitSubscribe
    /\ [][NextSubscribe]_vars
    /\ \A r \in Receivers : WF_vars(Recv(r))

\* everything but the BSON bodies, the pipelines and the transactions
InitServerIdle ==
    /\ now = 0
    /\ last = NoStep
    /\ config = FixedBreakerConfig
    /\ InitBreakerVars
    /\ rl_config = FixedRateLimitConfig
    /\ InitLimiterVars
    /\ variant = "production"
    /\ InitServeVars
    /\ InitLifeIdle
    /\ InitCodecIdle
    /\ engine = "documentdb"
    /\ InitStoreVars
    /\ InitRegistryVars
    /\ pool_config = FixedPoolConfig
    /\ InitPoolVars
    /\ InitSubscriberVars

InitBson ==
    /\ InitServerIdle
    /\ bson_data \in BsonInputs
    /\ bson_parsed = NotParsed
    /\ InitPipelineIdle
    /\ InitTxnVars

NextBson == ParseBsonDocument

SpecBson == InitBson /\ [][NextBson]_vars

InitPipeline ==
    /\ InitServerIdle
    /\ InitBsonIdle
    /\ input_docs \in Collections
    /\ stages \in Pipelines
    /\ pushed = NotRun
    /\ processed = NotRun
    /\ InitTxnVars

NextPipeline ==
    \/ PushDown
    \/ ProcessPipeline

SpecPipeline == InitPipeline /\ [][NextPipeline]_vars

InitTxn ==
    /\ InitServerIdle
    /\ InitBsonIdle
    /\ InitPipelineIdle
    /\ InitTxnVars

NextTxn ==
    \/ \E s \in Sessions : StartAcquire(s)
    \/ \E s \in Sessions : StartInsert(s)
    \/ CommitTransaction
    \/ AbortTransaction

SpecTxn == InitTxn /\ [][NextTxn]_vars




(***************************************************************************)
(* Claims about the circuit breaker (SpecBreaker)                          *)
(***************************************************************************)
ShouldOpen(s) ==
    /\ s.request_count >= config.volume_threshold
    /\ s.failure_count >= config.failure_threshold

\* C4, as claimed: a call completing while the breaker is Closed opens it if
\* and only if request_count >= volume_threshold and failure_count >=
\* failure_threshold then hold.
C4_OpensIffThresholds ==
    [][(breaker.state = "Closed" /\ last'.op = "update")
          => ((breaker'.state = "Open") <=> ShouldOpen(breaker'))]_vars

\* C4, amended: the breaker moves from Closed to Open exactly when a FAILED
\* call completes while it is Closed and, counting that call, request_count >=
\* volume_threshold and failure_count >= failure_threshold; it never opens
\* while either condition does not hold, and a successful call never opens it.
C4_OpensOnFailureIffThresholds ==
    [][breaker.state = "Closed"
          => ((breaker'.state = "Open")
                <=> (last'.op = "update" /\ ~last'.success /\ ShouldOpen(breaker')))]_vars

C4_Witness ==
    /\ last.op = "update"
    /\ last.seen = "Closed"
    /\ breaker.state = "Open"
    /\ config.failure_threshold = MaxThreshold
    /\ config.volume_threshold = MaxThreshold

\* C5: a call that finds the breaker Open is rejected with the circuit-open
\* error and its operation is not executed.
C5_OpenShortCircuits ==
    (last.op = "check" /\ last.seen = "Open")
        => (~last.allowed /\ call_pc[last.caller] = "idle")

\* C6: once the breaker has opened and sleep_window has elapsed,
\* success_threshold successful calls in a row have returned it to Closed.
C6_RecoversAfterThreshold ==
    (streak > 0 /\ streak >= config.success_threshold) => breaker.state = "Closed"

C8_HalfOpenAfterSleep ==
    SleepWindowElapsed => get_state = "HalfOpen"

\* C9: whenever the breaker transitions to Closed, failure_count,
\* success_count and request_count are all zero afterwards.
C9_CountersResetOnClose ==
    [][(breaker.state # "Closed" /\ breaker'.state = "Closed")
          => /\ breaker'.failure_count = 0
             /\ breaker'.success_count = 0
             /\ breaker'.request_count = 0]_vars

C9_Witness ==
    /\ last.op = "update"
    /\ last.success
    /\ last.seen = "HalfOpen"
    /\ breaker.state = "Closed"
    /\ breaker.request_count = 0

(***************************************************************************)
(* Claims about the rate limiter (SpecLimiter)                             *)
(***************************************************************************)
\* the first n checks on the bucket were immediate: each was made before one
\* token's worth of time had passed since the bucket was created
Immediate(n) ==
    /\ Len(rl_log) >= n
    /\ \A j \in 1..n :
          (rl_log[j].at - rl_log[1].at) * rl_config.requests_per_second < TicksPerSecond

\* C10: after burst_size immediate requests on a fresh bucket, the next
\* immediate request is RateLimited with retry_after <= ceil(1/requests_per_second).
C10_RetryAfterBound ==
    Immediate(rl_config.burst_size + 1)
        => LET r == rl_log[rl_config.burst_size + 1].result
           IN  /\ r.kind = "RateLimited"
               /\ r.retry_after_seconds <= CeilDiv(1, rl_config.requests_per_second)

C10_Witness ==
    /\ Immediate(rl_config.burst_size + 1)
    /\ rl_config.burst_size = MaxBurst
    /\ rl_config.requests_per_second = MaxRps
    /\ rl_log[MaxBurst].result.kind = "Allowed"

(***************************************************************************)
(* Claims about the connection serving loop (SpecServe)                    *)
(***************************************************************************)
\* the frames on connection c that answer request ch
Answers(c, ch) == {k \in 1..Len(outbox[c]) : outbox[c][k].request = ch}

\* C1: on a connection that has not been closed, every request that reached
\* the dispatcher has exactly one response frame on that connection.
C1_ExactlyOneResponse ==
    \A c \in Conns :
        open[c] => \A i \in 1..Len(dispatched[c]) :
                       Cardinality(Answers(c, dispatched[c][i])) = 1

C1_Witness ==
    \E c \in Conns :
        /\ open[c]
        /\ Len(dispatched[c]) = MaxArrivals
        /\ \E k \in 1..Len(outbox[c]) : outbox[c][k].ok = 0 /\ outbox[c][k].request # NoRequest

\* C2: the response frame for a request with requestID = r carries
\* responseTo = r.
C2_ResponseToIsRequestId ==
    \A c \in Conns : \A k \in 1..Len(outbox[c]) :
        outbox[c][k].request # NoRequest
            => outbox[c][k].responseTo = outbox[c][k].request.requestID

GracefulSequence == <<"stop_new", "drain", "cleanup">>

\* C11: when the process exits after the guard has received SIGTERM or
\* SIGINT, either the graceful sequence has run to its end (new connections
\* stopped, connections drained, cleanup) and the exit is clean, or the exit
\* is forced and graceful_timeout had elapsed.
C11_GracefulUnlessTimeout ==
    (main_pc = "exited" /\ guard_reason.kind = "Signal")
        => IF exit_code = force_shutdown
           THEN forced = "timeout"
           ELSE phases = GracefulSequence

\* a shutdown signal has been received
SignalReceived == signals > 0

\* C12: once a shutdown signal has been received, no step opens a new client
\* connection.
C12_NoAcceptAfterSignal ==
    [][SignalReceived
          => \A c \in Clients : client'[c] = "open" => client[c] = "open"]_vars

\* a shutdown reason has been broadcast
Broadcast == channel # <<>>

\* C13: once a shutdown reason has been broadcast, no loop resumes from its
\* suspension point for another turn: the accept loop accepts nothing, no
\* serving loop handles another read and the cleanup task does not run again.
C13_LoopsExitAfterBroadcast ==
    [][Broadcast
          => /\ connection_count' = connection_count
             /\ reads' = reads
             /\ reaper_runs' = reaper_runs]_vars

(***************************************************************************)
(* Claims about the admission of connections (SpecAccept)                  *)
(***************************************************************************)
OpenConnections == {c \in Clients : client[c] = "open"}

\* C14: the number of simultaneously open client connections never exceeds
\* max_connections.
C14_OpenWithinLimit == Cardinality(OpenConnections) <= max_connections

\* C15: when the accept loop finds the limit reached while a connection is
\* pending, its step accepts that connection and closes it at once, and a
\* stream handed to the ProcessManager at the limit is closed at once.
C15_ExcessClosedAtOnce ==
    [][/\ (/\ accept_pc = "loop"
           /\ accept_pc' # accept_pc
           /\ connection_count >= max_connections
           /\ backlog # <<>>)
          => client'[Head(backlog)] = "rejected"
       /\ \A c \in Clients :
             (/\ acceptor = "process_manager"
              /\ client[c] = "none"
              /\ client'[c] # "none"
              /\ Cardinality(OpenConnections) >= max_connections)
                => client'[c] = "rejected"]_vars

\* a call of parse_message, as recorded in yielded, got a whole frame: its
\* bytes begin where a frame begins and reach to that frame's end or beyond
WholeFrame(y) ==
    /\ frame_at(stream, y.at) # 0
    /\ y.n >= message_length(stream[frame_at(stream, y.at)])

\* C16: the server acts on a message only after all messageLength bytes of
\* it have been read: every call of the parser is made on bytes that start
\* at a frame boundary and hold that frame completely; the bytes of a
\* partially received message are never parsed
C16_ParsedOnlyWhenComplete ==
    \A k \in 1..Len(yielded) : WholeFrame(yielded[k])

\* the frames the codec has yielded, in order
Yielded == SelectSeq(yielded, LAMBDA y : y.res.kind = "Ok")

\* C17: for a stream of concatenated valid frames, however it is split
\* across reads, once every byte has arrived and has been read the codec
\* has yielded exactly the frames of the stream, in order, and has consumed
\* exactly messageLength bytes for each of them
C17_FramesInOrder ==
    (arrived = StreamLen(stream) /\ rd = arrived /\ codec_open)
        => /\ Len(Yielded) = Len(stream)
           /\ \A k \in 1..Len(Yielded) :
                 /\ Yielded[k].res.frame = k
                 /\ Yielded[k].at = frame_start(stream, k)
                 /\ Yielded[k].n = message_length(stream[k])

\* C18: when reading a request fails at the codec level the server closes
\* the connection and sends no reply: every frame the server writes answers
\* a request that was read and parsed; nothing is written for bytes that
\* failed to parse
C18_NoReplyWhenFramingLost ==
    \A c \in Conns : \A k \in 1..Len(outbox[c]) : outbox[c][k].request # NoRequest

\* C19: the reply to an OP_QUERY request is an OP_REPLY, and the reply to an
\* OP_MSG request is an OP_MSG with exactly one kind-0 body section and
\* flags = 0, whatever the command and for error replies too
C19_ReplyOpcodeMatchesRequest ==
    \A c \in Conns : \A k \in 1..Len(outbox[c]) :
        LET f == outbox[c][k] IN
        f.request # NoRequest
            => /\ f.request.opCode = OP_QUERY => f.opCode = OP_REPLY
               /\ f.request.opCode = OP_MSG
                     => f.opCode = OP_MSG /\ f.kinds = <<0>> /\ f.flags = 0

\* C20: a request whose command name is not in the handler registry gets an
\* error response with ok: 0, an errmsg and code 59 (CommandNotFound): every
\* response that reports an unknown command has ok = 0 and code 59
C20_UnknownCommandCode59 ==
    \A c \in Conns : \A k \in 1..Len(outbox[c]) :
        outbox[c][k].errmsg = "Unknown command"
            => outbox[c][k].ok = 0 /\ outbox[c][k].code = {59}

\* connection c has just been sent a response that reports an unknown command
UnknownAnswered(c) ==
    /\ Len(outbox'[c]) = Len(outbox[c]) + 1
    /\ outbox'[c][Len(outbox'[c])].errmsg = "Unknown command"

\* C21: after an unknown command has been answered with its error response
\* the connection stays open (and later requests on it are still served):
\* the turn of the serving loop that writes the response to an unknown
\* command leaves the connection open
C21_OpenAfterUnknownCommand ==
    [][\A c \in Conns : UnknownAnswered(c) => open'[c]]_vars

\* C22: an error raised by the storage backend while a command is served is
\* reported to the client as an ok:0 response document; it is never turned
\* into an ok:1 reply
C22_BackendErrorReported ==
    \A k \in 1..Len(served) : served[k].failed # {} => served[k].reply.ok = 0

\* the items of served command e that the backend was called for
Attempted(e) == {e.attempted[i] : i \in 1..Len(e.attempted)}

\* C24: in a write batch with ordered:true processing stops at the first
\* item that produces a write error: no later item of the batch is attempted
C24_OrderedStopsAtFirstError ==
    \A k \in 1..Len(served) :
        served[k].ordered
            => \A i \in served[k].failed : \A j \in Attempted(served[k]) : j <= i

\* update(filter={_id:x}, u={$set:{a:1}}, upsert=true)
UpsertX == [q |-> Doc("x", NoField, NoField), u |-> Doc(NoField, NoField, "1"),
            upsert |-> TRUE]

\* the commands served so far are two calls of UpsertX, both without an
\* error of the backend, on a collection that was empty
UpsertTwice ==
    /\ Len(served) = 2
    /\ \A k \in 1..2 : /\ served[k].op = "update"
                       /\ served[k].items = <<UpsertX>>
                       /\ served[k].failed = {}

\* C25: applying update(filter={_id:x}, u={$set:{a:1}}, upsert=true) twice
\* to an empty collection leaves exactly one document with _id=x, a=1, and
\* the second call reports matched=1, modified=0
C25_UpsertIdempotent ==
    UpsertTwice => /\ table = <<Doc("x", "1", NoField)>>
                   /\ served[2].reply.n = 1
                   /\ served[2].reply.nModified = 0

\* C23: after a cursor has returned id = 0, any later getMore on that cursor
\* id fails with CursorNotFound
C23_GetMoreAfterExhaustion ==
    \A j, k \in 1..Len(answered) :
        (/\ j < k
         /\ answered[j].reply.cursor = {0}
         /\ first_key(answered[k].request) = "getMore"
         /\ answered[k].request.id = 0)
            => answered[k].reply.ok = 0 /\ answered[k].reply.errmsg = "CursorNotFound"

\* C26: the command a request is dispatched to is the first field name of
\* its top-level body document, whatever other fields the document contains
C26_FirstFieldIsCommand ==
    \A k \in 1..Len(answered) : answered[k].command = first_key(answered[k].request)

\* C27: a command that the server does not actually implement is answered
\* with a CommandNotImplemented error; no handler and no fallback path
\* answers it with a fake ok:1
C27_NoFakeSuccess ==
    \A k \in 1..Len(answered) :
        answered[k].reply.by \in {"stub", "fallback"}
            => /\ answered[k].reply.ok = 0
               /\ answered[k].reply.errmsg = "CommandNotImplemented"

\* C28: a task that asks for a backend connection while max_size are
\* outstanding does not stay waiting past the acquire timeout: by then its
\* call has failed with PoolExhausted
C28_AcquireTimesOut ==
    \A t \in Tasks :
        acquire[t].pc = "waiting" => acquire[t].waited <= pool_config.connection_timeout

Untouched(e, t) == e.present /\ t - e.last_request >= 3600 * TicksPerSecond

\* C29: a rate-limit bucket that has gone untouched for one hour is
\* eventually evicted by the cleanup task: it does not stay in the map
\* untouched (a request that is allowed in the meantime touches it, and
\* its hour starts again)
C29_StaleBucketEvicted ==
    Untouched(entry, now) ~> (~entry.present \/ ~Untouched(entry, now))

\* the cleanup task has evicted a bucket that requests had created
C29_Witness ==
    /\ ~entry.present
    /\ Len(rl_log) > 0
    /\ reaper_runs > 0
    /\ now >= 3600 * TicksPerSecond

Delivered(r) == {received[r][i] : i \in 1..Len(received[r])}
Queued(r) == {channel[i] : i \in (rx[r] + 1)..Len(channel)}

Probes == {p \in Callers : call_pc[p] = "probing"}

\* C35: after the sleep window has elapsed at most one probe is in flight at
\* a time: of the callers admitted while the breaker was not Closed, no two
\* are executing the guarded operation together
C35_SingleProbe == Cardinality(Probes) <= 1

\* C36: under any sequence of shutdown triggers (initiate_shutdown calls and
\* signals) the shutdown takes effect once: as soon as a trigger has
\* happened is_shutting_down is true, the recorded reason is that of the
\* first trigger, and exactly one reason has been broadcast
C36_ShutdownTakesEffectOnce ==
    (channel # <<>> \/ initiated # <<>>)
        => /\ is_shutting_down
           /\ Len(channel) = 1
           /\ shutdown_reason = channel[1]

\* C37: a task that starts waiting for the shutdown after the reason has
\* been broadcast still observes it: once a reason has been broadcast, every
\* receiver handed out by subscribe has received a reason or has one queued
C37_LateWaiterObserves ==
    \A r \in subscribed : channel # <<>> => Delivered(r) \cup Queued(r) # {}

\* the checks i..j of the bucket that were answered Allowed
AllowedIn(i, j) == {k \in i..j : rl_log[k].result.kind = "Allowed"}

\* C38: for a single bucket and any interval of T seconds, the number of
\* requests answered Allowed is at most burst_size + requests_per_second * T
\* (both sides in ticks: T = (at_j - at_i) / TicksPerSecond)
C38_AllowedWithinBudget ==
    \A i, j \in 1..Len(rl_log) :
        i <= j =>
            Cardinality(AllowedIn(i, j)) * TicksPerSecond
                <= rl_config.burst_size * TicksPerSecond
                     + rl_config.requests_per_second * (rl_log[j].at - rl_log[i].at)

\* the bucket has answered more requests Allowed than its burst, after a
\* refill, has turned one away, and has been filled up to its capacity again
C38_Witness ==
    /\ rl_config.burst_size >= 1
    /\ Len(rl_log) >= 3
    /\ Cardinality(AllowedIn(1, Len(rl_log))) > rl_config.burst_size
    /\ \E k \in 1..Len(rl_log) : rl_log[k].result.kind = "RateLimited"
    /\ rl_log[Len(rl_log)].result.kind = "Allowed"
    /\ rl_log[Len(rl_log)].at - rl_log[Len(rl_log) - 1].at
           > (rl_config.burst_size * TicksPerSecond) \div rl_config.requests_per_second

\* the slots counted against max_connections
SlotsHeld == IF acceptor = "server" THEN connection_count ELSE get_connection_count

\* C34: when a client connection ends, for any reason including a failure
\* to start its worker, its slot against max_connections is released: no
\* more slots are held than there are connections open or being admitted
C34_SlotReleasedAtEnd ==
    SlotsHeld <= Cardinality({c \in Clients : client[c] \in {"open", "admitting"}})

(***************************************************************************)
(* Claims about BSON bodies (SpecBson)                                     *)
(***************************************************************************)
\* the bytes begin with a well-formed document of the length they announce
ValidBsonBody(data) ==
    /\ Len(data) >= 4
    /\ le32(data, 1) <= Len(data)
    /\ from_slice(SubSeq(data, 1, le32(data, 1))).kind = "Ok"

\* C33: a request whose body is not a valid BSON document is rejected as an
\* error; no recovered or fabricated document is returned for it
C33_InvalidBodyRejected ==
    (bson_parsed # NotParsed /\ ~ValidBsonBody(bson_data)) => bson_parsed.kind = "Err"

(***************************************************************************)
(* Claims about aggregation pipelines (SpecPipeline)                       *)
(***************************************************************************)
\* the operators that field_condition_to_sql or evaluate_field_condition
\* have an arm for
SupportedOperators ==
    {"$eq", "$ne", "$gt", "$gte", "$lt", "$lte", "$in", "$nin", "$regex", "$exists"}

HasUnsupportedOperator ==
    \E i \in 1..Len(stages) :
        /\ stages[i].kind = "$match"
        /\ \E k \in 1..Len(stages[i].filter.ops) :
              stages[i].filter.ops[k].op \notin SupportedOperators

\* C31: a filter that contains an operator the gateway does not support
\* fails with an error, on the SQL path and in memory; its pipeline never
\* yields rows
C31_UnsupportedOperatorFails ==
    HasUnsupportedOperator => (pushed.kind # "Ok" /\ processed.kind # "Ok")

OnlySkipAndLimit == \A i \in 1..Len(stages) : stages[i].kind \in {"$skip", "$limit"}

\* C32: for a pipeline of $skip and $limit stages, the pushed-down query
\* returns the documents that applying the stages one after another, in the
\* order written, returns
C32_SkipLimitInSourceOrder ==
    (OnlySkipAndLimit /\ pushed # NotRun)
        => (pushed.kind = "Ok"
            /\ pushed.docs = process_pipeline_with_input(input_docs, stages, 1))

(***************************************************************************)
(* Claims about transactions (SpecTxn)                                     *)
(***************************************************************************)
\* C39: at any time at most 100 transactions are active, that is started
\* and neither committed nor aborted
C39_AtMostHundredActive ==
    Cardinality(active_transactions) <= TransactionPermits
====
